---- MODULE Spec2Model ----
(***************************************************************************)
(* Traktarr: the list -> reconcile -> sort -> per-item filter/submit       *)
(* pipeline of core/business_logic.py (_process_media).                    *)
(*                                                                         *)
(* One pipeline invocation is a sequential process whose position is pc.   *)
(* Every adapter call, gate evaluation, sleep, notification and logged     *)
(* error is appended to the history variable trace, so that claims about   *)
(* which calls happen, how often and in what order are state predicates.   *)
(*                                                                         *)
(* run_automatic_mode is a second sequential process, whose position is    *)
(* spc: it creates the scheduled tasks, runs them once when run_now is     *)
(* set and then stays in the steady loop.  Time is counted in seconds by   *)
(* the clock now; what the scheduler logs, runs and sleeps is appended to  *)
(* the history variable slog.                                              *)
(***************************************************************************)
EXTENDS Integers, Sequences, FiniteSets, TLC

\* ------------------------------------------------------------------ bounds
\* catalogue ids are 1..MaxItems; the list source returns at most MaxItems
MaxItems == 3
\* add_limit ranges over 0..MaxLimit (0 = unlimited)
MaxLimit == 2
\* the steady loop of run_automatic_mode is followed for MaxIterations rounds
MaxIterations == 2

\* ------------------------------------------------------------ value space
None == "None"

Ids == 1..MaxItems
\* id of a library entry that is on no catalogue list
OtherId == 0

\* votes of the catalogue entries: not monotone in the id, with ties
Votes(i) == IF i = 1 THEN 1 ELSE 2

Envelope(i) == [id |-> i, votes |-> Votes(i)]

RECURSIVE AscendingSeq(_, _)
\* the elements of S (a set of ids) from lo upwards, as envelopes
AscendingSeq(S, lo) ==
    IF lo > MaxItems THEN << >>
    ELSE IF lo \in S THEN << Envelope(lo) >> \o AscendingSeq(S, lo + 1)
    ELSE AscendingSeq(S, lo + 1)

\* a Python value that is either not yet assigned, None, or a list
UnsetList == [st |-> "unset", items |-> << >>]
NoneList == [st |-> "None", items |-> << >>]
SomeList(s) == [st |-> "list", items |-> s]

\* a Python return value: not returned yet, None, or a count
NoReturn == [ret |-> "unset", val |-> 0]
ReturnNone == [ret |-> "None", val |-> 0]
ReturnCount(n) == [ret |-> "count", val |-> n]

\* what the list source may answer: None (failure), or a list of envelopes
ListSourceAnswers ==
    { NoneList } \cup { SomeList(AscendingSeq(S, 1)) : S \in SUBSET Ids }

\* what the inventory target may hold when the invocation starts
\* (nothing, or the other entry and the first k catalogue entries)
LibraryChoices == { {} } \cup { OtherId..k : k \in 0..MaxItems }
ExclusionChoices == { {}, {MaxItems} }

E(ev, item, res) == [ev |-> ev, item |-> item, res |-> res]

Count(s, ev) == Len(SelectSeq(s, LAMBDA e : e.ev = ev))
CountRes(s, ev, res) == Len(SelectSeq(s, LAMBDA e : e.ev = ev /\ e.res = res))
Has(s, ev) == \E k \in 1..Len(s) : s[k].ev = ev

VARIABLES
    cfg,                 \* the global configuration singleton
    library,             \* ids the inventory target holds
    exclusions,          \* ids on the movie target's exclusion list
    pc,                  \* position of the invocation
    args,                \* arguments of the invocation
    genres,              \* local: inclusion genres after argument processing
    pvr_objects_list,    \* local: existing inventory fetched at the start
    pvr_exclusions_list, \* local
    trakt_objects_list,  \* local
    processed_list,      \* local
    removal_successful,  \* local
    sorted_list,         \* local
    idx,                 \* position of the for loop in sorted_list
    added_count,         \* local
    result,              \* return value of the invocation
    trace,               \* history of calls, sleeps, notifications, logs
    intervals,           \* cfg.automatic.<kind>.intervals, per schedule call
    run_now,             \* argument of run_automatic_mode
    add_delay,           \* argument of run_automatic_mode
    spc,                 \* position of run_automatic_mode
    call,                \* which of the four schedule_task calls is next
    now,                 \* the clock, in seconds
    scheduled_tasks,     \* local of run_automatic_mode: the created jobs
    last_schedule_log,   \* local of run_automatic_mode
    runnable,            \* jobs run_pending has still to run, by position
    running,             \* jobs whose function is executing, by position
    iterations,          \* rounds of the steady loop so far
    slog,                \* history of the scheduler
    list_filter,         \* argument of _automatic_media
    automatic_config,    \* cfg.automatic.<kind>, keys in the dict's order
    tpc,                 \* position of _automatic_media
    key_pos,             \* position of the for loop over automatic_config
    entry_pos,           \* position of the inner loop (watchlist, lists)
    added_items,         \* local of _automatic_media
    total_added,         \* local of _automatic_media
    tlog,                \* history of _automatic_media
    task_media_type,     \* argument media_type of _automatic_media
    task_ignore_blacklist, \* argument ignore_blacklist of _automatic_media
    task_notifications,  \* argument notifications of _automatic_media
    disabled_for,        \* cfg.filters.<kind>.disabled_for
    discord,             \* the Discord object: webhook_url, username, avatar_url
    dlog                 \* history of the Discord.send calls

pipeline == << cfg, library, exclusions, pc, args, genres, pvr_objects_list,
           pvr_exclusions_list, trakt_objects_list, processed_list,
           removal_successful, sorted_list, idx, added_count, result, trace >>

scheduler == << intervals, run_now, add_delay, spc, call, now,
                scheduled_tasks, last_schedule_log, runnable, running,
                iterations, slog >>

taskargs == << list_filter, automatic_config, task_media_type,
               task_ignore_blacklist, task_notifications, disabled_for >>

automatic == << taskargs, tpc, key_pos, entry_pos, added_items, total_added,
                tlog >>

notifier == << discord, dlog >>

vars == << pipeline, scheduler, automatic, notifier >>

locals == << pvr_objects_list, pvr_exclusions_list, trakt_objects_list,
             processed_list, removal_successful, sorted_list, idx,
             added_count >>

world == << library, exclusions >>

\* --------------------------------------------------------- configuration
ConfiguredGenres == { "horror" }

\* verbose: cfg.notifications.verbose; omdb_api_key: cfg.omdb.api_key is
\* set; sonarr_tags: cfg.sonarr.tags is not None
Cfg(v, k) ==
    [verbose |-> v, omdb_api_key |-> k, sonarr_tags |-> k,
     blacklisted_genres |-> ConfiguredGenres]

\* the OMDb key matters to movies only and the tags to shows only
CfgChoices == { Cfg(v, k) : v \in BOOLEAN, k \in BOOLEAN }

\* ------------------------------------------------------------- arguments
Arg(mt, lim, dry, notif, g, ign, rt) ==
    [media_type |-> mt, add_limit |-> lim, dry_run |-> dry,
     notifications |-> notif, genres |-> g, ignore_blacklist |-> ign,
     rotten_tomatoes |-> rt, list_type |-> "trending",
     remove_rejected_from_recommended |-> FALSE]

\* every combination of the arguments that steer submission and reporting
BaseArgs ==
    { Arg(mt, lim, dry, notif, None, FALSE, None) :
        mt \in {"shows", "movies"}, lim \in 0..MaxLimit,
        dry \in BOOLEAN, notif \in BOOLEAN }

\* the arguments that steer the gates
FilterArgs ==
    UNION { { Arg(mt, 1, FALSE, FALSE, "ignore", FALSE, None),
              Arg(mt, 1, FALSE, FALSE, "drama", FALSE, None),
              Arg(mt, 1, FALSE, FALSE, None, TRUE, None),
              Arg(mt, 1, FALSE, FALSE, None, FALSE, "80") } :
            mt \in {"shows", "movies"} }

\* the arguments that steer the removal from the recommendations
RecommendedArgs ==
    { [Arg(mt, 1, FALSE, FALSE, None, FALSE, None)
         EXCEPT !.list_type = lt.list_type,
                !.remove_rejected_from_recommended = lt.remove] :
        mt \in {"shows", "movies"},
        lt \in { [list_type |-> "recommended", remove |-> TRUE],
                 [list_type |-> "recommended", remove |-> FALSE],
                 [list_type |-> "trending", remove |-> TRUE] } }

ArgChoices == BaseArgs \cup FilterArgs \cup RecommendedArgs

\* ------------------------------------------------ helpers that are called
\* helpers.sonarr.remove_existing_series_from_trakt_list: the list without
\* the envelopes whose primary id is in the inventory; None only on failure
RemoveExistingSeries(objs, lst, fails) ==
    IF fails THEN NoneList
    ELSE SomeList(SelectSeq(lst, LAMBDA e : e.id \notin objs))

\* helpers.radarr.remove_existing_and_excluded_movies_from_trakt_list:
\* a pair (list, success); (None, False) on failure, (None, True) when
\* every envelope was already present or excluded
RemoveExistingAndExcludedMovies(objs, excl, lst, fails) ==
    IF fails THEN << NoneList, FALSE >>
    ELSE LET rest == SelectSeq(lst, LAMBDA e : e.id \notin objs /\ e.id \notin excl)
         IN IF rest = << >> THEN << NoneList, TRUE >>
            ELSE << SomeList(rest), TRUE >>

\* both reconciliation helpers call the removal callback, when they are
\* given one, for every envelope they take out of the list
RemovedByReconciliation(objs, excl, lst, fails) ==
    IF fails THEN << >>
    ELSE SelectSeq(lst, LAMBDA e : e.id \in objs \/ e.id \in excl)

\* the blacklist evaluation calls the removal callback, when it is given
\* one, for an item it rejects
RemovalTriggered(callback, is_blacklisted) == callback /\ is_blacklisted

RECURSIVE InsertByVotes(_, _)
\* s is ordered by descending votes; e goes behind every entry that has at
\* least its votes
InsertByVotes(e, s) ==
    IF s = << >> THEN << e >>
    ELSE IF Head(s).votes >= e.votes THEN << Head(s) >> \o InsertByVotes(e, Tail(s))
    ELSE << e >> \o s

RECURSIVE SortedFrom(_, _)
SortedFrom(lst, acc) ==
    IF lst = << >> THEN acc
    ELSE SortedFrom(Tail(lst), InsertByVotes(Head(lst), acc))

\* helpers.misc.sorted_list: descending by the sort key, ties in source order
SortedList(lst) == SortedFrom(lst, << >>)

\* helpers.trakt.is_show_blacklisted / is_movie_blacklisted: the override
\* wins, otherwise the verdict of the configured rules
IsBlacklisted(ignore_blacklist, rule_verdict) ==
    IF ignore_blacklist THEN FALSE ELSE rule_verdict

\* ------------------------------------------- decisions of _process_media
\* variant: only None counts as a failed fetch, an empty list passes
ListFetchFailedNoneOnly(l) == l.st = "None"

\* line 491: "if not trakt_objects_list"
ListFetchFailed(l) == l.st = "None" \/ l.items = << >>

\* variant: the abort notification is sent unconditionally
AbortNotifiedAlways(notifications) == TRUE

\* lines 493, 529: the abort notification is guarded by notifications
AbortNotified(notifications) == notifications

\* variant: the inventory of an earlier invocation is used again
FetchedObjectsCached(lib, earlier) == IF earlier # {} THEN earlier ELSE lib

\* line 477: get_objects asks the inventory target at every invocation
FetchedObjects(lib, earlier) == lib

\* variant: the list as fetched is sorted and walked
SortInputFetched(processed, fetched) == fetched

\* lines 548-555: sorted_list is built from processed_list
SortInput(processed, fetched) == processed

\* variant: the override is not handed to the blacklist evaluation
BlacklistOverrideDropped(a) == FALSE

\* lines 597, 604: ignore_blacklist is handed to the blacklist evaluation
BlacklistOverride(a) == a.ignore_blacklist

\* variant: the blacklist verdict is not consulted
ShouldAddAlways(is_blacklisted) == TRUE

\* line 608: "if not is_blacklisted"
ShouldAdd(is_blacklisted) == ~is_blacklisted

\* line 610: the minimum-rating gate is active
RtGateActive(a, c) ==
    a.media_type = "movies" /\ a.rotten_tomatoes # None /\ c.omdb_api_key
\* what pvr.get_objects answers: None when the lookup fails, else the
\* inventory
ObjectsAnswer(failed, objs) ==
    IF failed THEN [st |-> "None", items |-> {}]
    ELSE [st |-> "list", items |-> objs]

\* variant: only a failed lookup aborts
ObjectsMissingNoneOnly(answer) == answer.st = "None"

\* line 119: not objects_list
ObjectsMissing(answer) == answer.st = "None" \/ answer.items = {}

\* variant: the list type is not looked at
CallbackPassedAnyList(a) == a.remove_rejected_from_recommended

\* lines 505-506, 514, 523, 598, 605: callback_remove_recommended is handed
\* on only for the 'recommended' list
CallbackPassed(a) ==
    a.remove_rejected_from_recommended /\ a.list_type = "recommended"


\* variant: dry_run is not consulted
DryRunSkipsNever(dry_run) == FALSE

\* line 628: "if dry_run" skips the submission
DryRunSkips(dry_run) == dry_run

\* variant: the counter is incremented whatever the adapter reported
CountAfterSubmitAlways(count, add_result) == count + 1

\* lines 679-689: the success counter after a submission
CountAfterSubmit(count, add_result) ==
    IF add_result THEN count + 1 ELSE count

\* variant: the limit check is off by one
LimitReachedLate(add_limit, count) == add_limit # 0 /\ count > add_limit

\* line 695: "if add_limit and added_count >= add_limit"
LimitReached(add_limit, count) == add_limit # 0 /\ count >= add_limit

\* line 567: the for loop takes the items of sorted_list one after the other
NextItem(i) == i + 1

\* variant: the loop walks the list from its end
CurrentItemReversed(lst, i) == lst[Len(lst) + 1 - i]

\* line 567: sorted_item at position i of the loop
CurrentItem(lst, i) == lst[i]

\* variant: verbose is not consulted
SummarySentIfAdded(notifications, verbose, count) ==
    notifications /\ count > 0

\* line 707: the summary notification is sent
SummarySent(notifications, verbose, count) ==
    notifications /\ (verbose \/ count > 0)

\* ------------------------------------------- run_automatic_mode: values
\* seconds in an hour, the unit of schedule.every(interval).hours
Hour == 3600

\* line 1332: schedule_log_interval
ScheduleLogInterval == 3600

\* lines 1360, 1367: time.sleep(1)
BriefPause == 1

\* the clock when run_automatic_mode starts: time.time() is past its
\* first hours
StartTime == 2 * Hour

\* task_name of the four schedule_task calls of lines 1312-1315, in order
TaskNames ==
    << "movies public lists", "movies user lists",
       "shows public lists", "shows user lists" >>

Calls == 1..Len(TaskNames)

\* an entry of cfg.automatic.<kind>.intervals: absent, or a number of hours
Absent == [set |-> FALSE, hours |-> 0]
Hours(h) == [set |-> TRUE, hours |-> h]

IntervalChoices == { Absent, Hours(-1), Hours(0), Hours(1), Hours(2) }

\* the configurations that are followed: any entry for the movie lists,
\* no entry or two hours for the show lists
IntervalConfigs ==
    { iv \in [Calls -> IntervalChoices] :
        \A c \in Calls : c > 2 => iv[c] \in { Absent, Hours(2) } }

AddDelayChoices == { 3 }

\* how long a task run takes, in seconds: less and more than an hour
Durations == { 10, Hour + 10 }

\* a task returns, raises an exception, or ends the process (SystemExit)
TaskOutcomes == { "returns", "raises", "exits" }

\* an entry of slog: what happened, to which task (or which kind of sleep),
\* at what time, with what number (a duration or a next-run time)
SE(ev, tag, t, v) == [ev |-> ev, tag |-> tag, t |-> t, v |-> v]

\* ---------------------------------------- run_automatic_mode: decisions
\* lines 1279-1285: get_interval
GetInterval(iv, c) == IF iv[c].set THEN iv[c].hours ELSE 0

\* variant: any interval that is not zero is scheduled
ShouldScheduleNonZero(interval) == interval # 0

\* line 1289: "if interval and interval > 0"
ShouldSchedule(interval) == interval # 0 /\ interval > 0

\* line 1299: schedule.every(interval).hours.do(func, *args) and its tag;
\* the job is first due one interval after its creation
Job(c, interval, t) ==
    [tag |-> TaskNames[c], interval |-> interval,
     next_run |-> t + interval * Hour]

\* variant: the immediate run is made whatever run_now says
RunsImmediatelyAlways(rn) == TRUE

\* line 1303: "if run_now"
RunsImmediately(rn) == rn

\* variant: the next run is the previous next run advanced by the interval
NextRunAdvanced(finished, previous, interval) == previous + interval * Hour

\* lines 1305, 1363: Job.run of the schedule library sets the next run one
\* interval after the moment the job function has returned
NextRunAfter(finished, previous, interval) == finished + interval * Hour

\* variant: the warning is never logged
NoTasksWarnedNever(tasks) == FALSE

\* line 1318: "if not scheduled_tasks"
NoTasksWarned(tasks) == tasks = << >>

\* variant: a due job is entered while another one is executing
MayStartWhileRunning(s) == s \in { "pending", "running" }

\* line 1363: run_pending calls the due jobs one after the other, each
\* call returning before the next is made
MayStart(s) == s = "pending"

\* variant: the loop has no handler
CaughtInLoopNever(o) == FALSE

\* line 1365: "except Exception" of the steady loop
CaughtInLoop(o) == o = "raises"

\* variant: the status is logged in every round
StatusDueAlways(t, last) == TRUE

\* line 1336: the status is logged when the last one is an hour old
StatusDue(t, last) == t - last >= ScheduleLogInterval

\* line 1353: schedule.idle_seconds(): None without jobs, otherwise the
\* seconds to the earliest next run (negative when it is overdue)
NoIdle == [none |-> TRUE, secs |-> 0]

RECURSIVE EarliestNextRun(_)
EarliestNextRun(tasks) ==
    IF Len(tasks) = 1 THEN tasks[1].next_run
    ELSE LET rest == EarliestNextRun(Tail(tasks))
         IN IF tasks[1].next_run <= rest THEN tasks[1].next_run ELSE rest

IdleSeconds(tasks, t) ==
    IF tasks = << >> THEN NoIdle
    ELSE [none |-> FALSE, secs |-> EarliestNextRun(tasks) - t]

\* variant: no pause when nothing is idle
SleepForIdleOnly(idle) == IF idle > 0 THEN idle ELSE 0

\* lines 1354-1360: how long the loop sleeps
SleepFor(idle) == IF idle > 0 THEN idle ELSE BriefPause

RECURSIVE SortedByNextRun(_, _)
\* the positions in S ordered by next run, ties in order of creation
SortedByNextRun(tasks, S) ==
    IF S = {} THEN << >>
    ELSE LET j == CHOOSE x \in S :
                    \A y \in S :
                        \/ tasks[x].next_run < tasks[y].next_run
                        \/ tasks[x].next_run = tasks[y].next_run /\ x <= y
         IN << j >> \o SortedByNextRun(tasks, S \ { j })

\* variant: run_pending finds no job due
RunnableNever(tasks, t) == << >>

\* line 1363: schedule.run_pending() runs the jobs that are due at t
Runnable(tasks, t) ==
    SortedByNextRun(tasks, { j \in 1..Len(tasks) : t >= tasks[j].next_run })

\* run_automatic_mode has not been called
SchedulerOff ==
    /\ intervals = [c \in Calls |-> Absent]
    /\ run_now = FALSE
    /\ add_delay = 0
    /\ spc = "off"
    /\ call = 0
    /\ now = 0
    /\ scheduled_tasks = << >>
    /\ last_schedule_log = 0
    /\ runnable = << >>
    /\ running = {}
    /\ iterations = 0
    /\ slog = << >>

\* ------------------------------------------- values of _automatic_media
\* Trakt.non_user_lists: the names of the public lists; a name is the
\* sequence of its parts between the '_' characters
NonUserLists ==
    { << "anticipated" >>, << "popular" >>, << "trending" >>,
      << "boxoffice" >> }

\* str.partition("_")[0]: the part before the first '_'
PartitionHead(name) == << name[1] >>

\* '_' in list_type
HasUnderscore(name) == Len(name) > 1

\* an entry of a watchlist or lists mapping: user or list name, limit
Ent(n, l) == [name |-> n, limit |-> l]

\* a key of cfg.automatic.<kind> whose value is a limit
Limit(name, n) == [name |-> name, limit |-> n, entries |-> << >>]

\* a key of cfg.automatic.<kind> whose value is a mapping
Mapping(name, es) == [name |-> name, limit |-> 0, entries |-> es]

Opt(S) == { << >> } \cup { << x >> : x \in S }

\* the configurations of one media type; 'intervals' is always there
AutomaticConfigs ==
    { << Mapping(<< "intervals" >>, << >>) >> \o a \o b \o c \o d \o e :
        a \in Opt({ Limit(<< "trending" >>, n) : n \in {0, 1} }),
        b \in Opt({ Limit(<< "popular", "weekly" >>, 1) }),
        c \in Opt({ Mapping(<< "watchlist" >>, es) :
                      es \in { << Ent("u1", 1), Ent("u2", 1) >>,
                               << Ent("u1", 0), Ent("u2", 1) >> } }),
        d \in Opt({ Mapping(<< "lists" >>, es) :
                      es \in { << >>, << Ent("l1", 1) >> } }),
        e \in Opt({ Limit(<< "my", "custom" >>, 1) }) }

ListFilters == { "public_lists", "user_lists", None }

\* how a _process_media invocation made with add_limit ends: it returns
\* its count, returns None, leaves through exit() or raises
Outcome(ret, val, why) == [ret |-> ret, val |-> val, why |-> why]
NoOutcome == Outcome("-", 0, "-")
InvocationOutcomes(add_limit) ==
    { Outcome("count", n, "-") : n \in 0..add_limit }
    \cup { Outcome("None", 0, w) : w \in { "list fetch", "reconciliation" } }
    \cup { Outcome("exit", 0, "inventory lookup"),
           Outcome("raise", 0, "item") }

\* an event of _automatic_media
TE(ev, list, entry, n, o) ==
    [ev |-> ev, list |-> list, entry |-> entry, n |-> n, o |-> o]

\* the invocation of _process_media, with the ignore_blacklist it is given
TI(list, entry, n, ignore) ==
    [ev |-> "invoke", list |-> list, entry |-> entry, n |-> n,
     o |-> NoOutcome, ignore |-> ignore]

\* the keys of disabled_for: the list name (line 1158),
\* f"watchlist:{authenticate_user}" (line 1185), f"list:{list_}" (line 1222)
ListKey(name) == [prefix |-> "", of |-> name]
WatchlistKey(user) == [prefix |-> "watchlist:", of |-> << user >>]
CustomListKey(l) == [prefix |-> "list:", of |-> << l >>]

\* the key of an entry of the 'watchlist' or the 'lists' mapping
EntryKey(name, entry) ==
    IF name = << "watchlist" >> THEN WatchlistKey(entry)
    ELSE CustomListKey(entry)

DisabledForChoices ==
    { {},
      { ListKey(<< "trending" >>), WatchlistKey("u1"), CustomListKey("l1") },
      { ListKey(<< "watchlist" >>), ListKey(<< "lists" >>),
        ListKey(<< "popular", "weekly" >>), WatchlistKey("u2") } }

\* media_type of the call; 'music' is not one _automatic_media knows
TaskMediaTypes == { "shows", "movies", "music" }

\* lines 1099-1115
ValidMediaType(mt) == mt \in { "shows", "movies" }

\* variant: the override of disabled_for is not applied
LocalIgnoreBlacklistTaskOnly(ignore, key, disabled) == ignore

\* lines 1156-1159, 1183-1186, 1220-1223
LocalIgnoreBlacklist(ignore, key, disabled) ==
    IF key \in disabled THEN TRUE ELSE ignore

\* variant: only a negative limit is skipped
LimitSkipsNegative(limit) == limit < 0

\* lines 1150, 1176, 1216
LimitSkips(limit) == limit <= 0

\* variant: the handler of line 1254 is missing
CaughtInTaskNever(ret) == FALSE

\* line 1254: except Exception
CaughtInTask(ret) == ret = "raise"

\* line 1251
TaskSummarySent(notifications, verbose, total) ==
    notifications /\ (verbose \/ total > 0)

\* lines 1131-1132
IsIntervalsKey(name) == name \in { << "interval" >>, << "intervals" >> }

\* lines 1137-1138, 1142-1143, 1146-1147: the name, or its part before
\* '_', is one of the public lists
IsPublicList(name) ==
    \/ name \in NonUserLists
    \/ HasUnderscore(name) /\ PartitionHead(name) \in NonUserLists

\* variant: the list_filter argument is ignored
SelectedAlways(filter, name) == TRUE

\* lines 1135-1144: the key passes the list_filter of the task
Selected(filter, name) ==
    IF filter = "public_lists" THEN IsPublicList(name)
    ELSE IF filter = "user_lists" THEN ~IsPublicList(name)
    ELSE TRUE

\* _automatic_media has not been called
AutomaticOff ==
    /\ list_filter = None
    /\ automatic_config = << >>
    /\ task_media_type = "shows"
    /\ task_ignore_blacklist = FALSE
    /\ task_notifications = FALSE
    /\ disabled_for = {}
    /\ tpc = "off"
    /\ key_pos = 0
    /\ entry_pos = 0
    /\ added_items = ReturnNone
    /\ total_added = 0
    /\ tlog = << >>

\* ------------------------------------------------ values of Discord.send
\* calls of send that are followed
MaxSends == 3

\* the object __init__ builds (notifications/discord.py lines 11-14)
DiscordObject(w, u, a) == [webhook_url |-> w, username |-> u, avatar_url |-> a]

DiscordObjects ==
    { DiscordObject(w, u, a) :
        w \in { None, "hook" }, u \in { "", "Traktarr" }, a \in { None, "png" } }

\* not x, for a string or None
Falsy(x) == x \in { None, "" }

\* the keyword arguments of a call: with or without 'message'
SendKwargs == { [message |-> "text"], [other |-> "text"] }

\* what requests.post does: it answers with a status code or raises
PostAnswers ==
    { [raises |-> None, status_code |-> c] : c \in { 204, 200, 404 } }
    \cup { [raises |-> "ConnectionError", status_code |-> 0] }

\* kwargs['message'] raises KeyError when the key is missing
PayloadRaises(kwargs) ==
    IF "message" \in DOMAIN kwargs THEN None ELSE "KeyError"

\* lines 24-31: the payload; avatar_url only when it is set
Payload(d, kwargs) ==
    IF Falsy(d.avatar_url)
    THEN [content |-> kwargs.message, username |-> d.username,
          avatar_url |-> None]
    ELSE [content |-> kwargs.message, username |-> d.username,
          avatar_url |-> d.avatar_url]

NoPayload == [content |-> None, username |-> None, avatar_url |-> None]

\* line 18
FieldsMissing(d) == Falsy(d.webhook_url) \/ Falsy(d.username)

\* variant: every answer below 300 counts as delivered
DeliveredAnySuccess(status_code) == status_code < 300

\* line 34
Delivered(status_code) == status_code = 204

\* line 36: except Exception; KeyError and the exceptions of requests are
\* subclasses of Exception
CaughtBySend(exc) == exc \in { "KeyError", "ConnectionError" }

\* one call of send, as the history keeps it
DE(kwargs, posted, payload, answer, logged, ret, propagated) ==
    [kwargs |-> kwargs, posted |-> posted, payload |-> payload,
     answer |-> answer, logged |-> logged, ret |-> ret,
     propagated |-> propagated]

NoAnswer == [raises |-> None, status_code |-> 0]

\* no Discord object is followed
NotifierOff ==
    /\ discord = DiscordObject(None, "", None)
    /\ dlog = << >>

\* ------------------------------------------------------------------- Init
Init ==
    /\ cfg \in CfgChoices
    /\ library \in LibraryChoices
    /\ exclusions \in ExclusionChoices
    /\ pc = "idle"
    /\ args = Arg("shows", 0, FALSE, FALSE, None, FALSE, None)
    /\ genres = None
    /\ pvr_objects_list = {}
    /\ pvr_exclusions_list = {}
    /\ trakt_objects_list = UnsetList
    /\ processed_list = UnsetList
    /\ removal_successful = FALSE
    /\ sorted_list = UnsetList
    /\ idx = 0
    /\ added_count = 0
    /\ result = NoReturn
    /\ trace = << >>
    /\ SchedulerOff
    /\ AutomaticOff
    /\ NotifierOff

\* ---------------------------------------------------------------- actions
\* _process_media is called; lines 395-465: the arguments are processed
ProcessArguments(a) ==
    /\ args' = a
    /\ IF a.genres = None
       THEN /\ genres' = None
            /\ cfg' = cfg
       ELSE IF a.genres = "ignore"
       THEN /\ genres' = None
            /\ cfg' = [cfg EXCEPT !.blacklisted_genres = { "ignore" }]
       ELSE /\ genres' = a.genres
            /\ cfg' = [cfg EXCEPT !.blacklisted_genres = @ \ { a.genres }]
    /\ added_count' = 0
    /\ pc' = "validate"

Invoke ==
    /\ pc = "idle"
    /\ \E a \in ArgChoices : ProcessArguments(a)
    /\ UNCHANGED << world, pvr_objects_list, pvr_exclusions_list,
                    trakt_objects_list, processed_list, removal_successful,
                    sorted_list, idx, result, trace >>
    /\ UNCHANGED << scheduler, automatic, notifier >>

\* lines 467-472: validate_trakt exits on failure, validate_pvr returns
ValidateCredentials ==
    /\ pc = "validate"
    /\ \E trakt_ok \in BOOLEAN, pvr_ok \in BOOLEAN :
        LET note == IF args.notifications
                    THEN << E("notify", 0, "error") >> ELSE << >>
        IN IF ~trakt_ok
           THEN /\ trace' = trace \o << E("validate_trakt", 0, "fail"),
                                        E("log_error", 0, "trakt") >> \o note
                /\ pc' = "exited"
           ELSE IF ~pvr_ok
           THEN /\ trace' = trace \o << E("validate_trakt", 0, "ok"),
                                        E("validate_pvr", 0, "fail"),
                                        E("log_error", 0, "pvr") >> \o note
                /\ pc' = "profile"
           ELSE /\ trace' = trace \o << E("validate_trakt", 0, "ok"),
                                        E("validate_pvr", 0, "ok") >>
                /\ pc' = "profile"
    /\ UNCHANGED << cfg, world, args, genres, locals, result >>
    /\ UNCHANGED << scheduler, automatic, notifier >>

\* line 475: get_quality_profile_id exits when the id is not resolved
GetQualityProfile ==
    /\ pc = "profile"
    /\ \E resolved \in BOOLEAN :
        IF resolved
        THEN /\ trace' = trace \o << E("quality_profile", 0, "ok") >>
             /\ pc' = "objects"
        ELSE /\ trace' = trace \o << E("quality_profile", 0, "fail"),
                                     E("log_error", 0, "profile") >>
             /\ pc' = "exited"
    /\ UNCHANGED << cfg, world, args, genres, locals, result >>
    /\ UNCHANGED << scheduler, automatic, notifier >>

\* lines 477-483: get_objects exits on an empty answer; get_exclusions
GetObjects ==
    /\ pc = "objects"
    /\ \E failed \in BOOLEAN :
        LET objects_list ==
                ObjectsAnswer(failed, FetchedObjects(library, pvr_objects_list))
            answered == IF objects_list.st = "None" THEN "None"
                        ELSE IF objects_list.items = {} THEN "empty"
                        ELSE "ok"
        IN IF ObjectsMissing(objects_list)
           THEN /\ trace' = trace \o << E("get_objects", 0, answered),
                                        E("log_error", 0, "objects") >>
                             \o (IF args.notifications
                                 THEN << E("notify", 0, "error") >> ELSE << >>)
                /\ pc' = "exited"
                /\ UNCHANGED << pvr_objects_list, pvr_exclusions_list >>
           ELSE /\ pvr_objects_list' = objects_list.items
                /\ IF args.media_type = "movies"
                   THEN /\ pvr_exclusions_list' = exclusions
                        /\ trace' = trace \o << E("get_objects", 0, answered),
                                                E("get_exclusions", 0, "ok") >>
                   ELSE /\ pvr_exclusions_list' = {}
                        /\ trace' = trace \o << E("get_objects", 0, answered) >>
                /\ pc' = "fetch"
    /\ UNCHANGED << cfg, world, args, genres, trakt_objects_list,
                    processed_list, removal_successful, sorted_list, idx,
                    added_count, result >>
    /\ UNCHANGED << scheduler, automatic, notifier >>

\* lines 486-502: the list is fetched; None or an empty list aborts
FetchList ==
    /\ pc = "fetch"
    /\ \E answer \in ListSourceAnswers :
        /\ trakt_objects_list' = answer
        /\ IF ListFetchFailed(answer)
           THEN /\ trace' = trace \o << E("fetch", 0, "failed"),
                                        E("log_error", 0, "fetch") >>
                             \o (IF AbortNotified(args.notifications)
                                 THEN << E("notify", 0, "abort") >> ELSE << >>)
                /\ result' = ReturnNone
                /\ pc' = "returned"
           ELSE /\ trace' = trace \o << E("fetch", 0, "list") >>
                /\ result' = result
                /\ pc' = "reconcile"
    /\ UNCHANGED << cfg, world, args, genres, pvr_objects_list,
                    pvr_exclusions_list, processed_list, removal_successful,
                    sorted_list, idx, added_count >>
    /\ UNCHANGED << scheduler, automatic, notifier >>

\* lines 504-545: the list is reconciled with the inventory
Reconcile ==
    /\ pc = "reconcile"
    /\ \E fails \in BOOLEAN :
        LET shows == RemoveExistingSeries(pvr_objects_list,
                                          trakt_objects_list.items, fails)
            movies == RemoveExistingAndExcludedMovies(pvr_objects_list,
                          pvr_exclusions_list, trakt_objects_list.items, fails)
            processed == IF args.media_type = "shows" THEN shows ELSE movies[1]
            success == IF args.media_type = "shows"
                       THEN shows.st # "None" ELSE movies[2]
            removed == RemovedByReconciliation(pvr_objects_list,
                           IF args.media_type = "shows" THEN {}
                           ELSE pvr_exclusions_list,
                           trakt_objects_list.items, fails)
            cb == IF CallbackPassed(args)
                  THEN << E("callback", 0, "reconcile") >>
                       \o [k \in 1..Len(removed) |->
                             E("remove_recommended", 0, "reconcile")]
                  ELSE << >>
        IN /\ processed_list' = processed
           /\ removal_successful' = success
           /\ IF processed.st = "None"
              THEN /\ IF ~success
                      THEN trace' = trace \o cb
                                    \o << E("reconcile", 0, "None"),
                                          E("log_error", 0, "reconcile") >>
                                    \o (IF AbortNotified(args.notifications)
                                        THEN << E("notify", 0, "abort") >>
                                        ELSE << >>)
                      ELSE trace' = trace \o cb
                                    \o << E("reconcile", 0, "None"),
                                          E("log_info", 0, "none_left") >>
                   /\ result' = ReturnNone
                   /\ pc' = "returned"
              ELSE /\ trace' = trace \o cb \o << E("reconcile", 0, "list") >>
                   /\ result' = result
                   /\ pc' = "sort"
    /\ UNCHANGED << cfg, world, args, genres, pvr_objects_list,
                    pvr_exclusions_list, trakt_objects_list, sorted_list, idx,
                    added_count >>
    /\ UNCHANGED << scheduler, automatic, notifier >>

\* lines 547-567: the processed list is sorted and the loop is entered
Sort ==
    /\ pc = "sort"
    /\ sorted_list' = SomeList(SortedList(SortInput(processed_list.items,
                                                     trakt_objects_list.items)))
    /\ trace' = trace \o << E("sort", 0, "-") >>
    /\ idx' = 1
    /\ pc' = IF SortInput(processed_list.items, trakt_objects_list.items) = << >>
             THEN "report" ELSE "loop"
    /\ UNCHANGED << cfg, world, args, genres, pvr_objects_list,
                    pvr_exclusions_list, trakt_objects_list, processed_list,
                    removal_successful, added_count, result >>
    /\ UNCHANGED << scheduler, automatic, notifier >>

\* what may go wrong for one item: the first gate or call that does not
\* succeed, provided the item gets that far; every other gate and call succeeds
ItemOutcomes ==
    { "no_key", "raise_validate", "invalid", "genre_miss", "raise_eval",
      "blacklisted", "rt_below", "lang_none", "tags_exit", "raise_add",
      "add_fail", "add_ok" }

\* variant: an item that fails the external-catalog validation goes on
TmdbRejectsNever(valid) == FALSE

\* line 583: an item the external catalog does not know is passed over
TmdbRejects(valid) == ~valid

\* lines 567-702: the body of the for loop for the envelope with id i.
\* evs: what is called and logged; count: added_count afterwards; ctl:
\* "raise" (an exception leaves _process_media), "exit" (SystemExit),
\* "next" (continue, or an exception caught at line 701), "tail" (the
\* limit check of line 695 is reached)
ItemRun(a, c, g, o, i, count) ==
    LET R(evs, ctl, n) == [evs |-> evs, ctl |-> ctl, count |-> n]
        Caught(evs, at) ==
            R(evs \o << E("raise", i, at), E("log_exception", i, "-") >>,
              "next", count)
        e1 == << E("tmdb", i, IF o = "invalid" THEN "false" ELSE "true") >>
        genre_gate == g # None
        e2 == IF genre_gate
              THEN e1 \o << E("genre", i, IF o = "genre_miss"
                                          THEN "false" ELSE "true") >>
              ELSE e1
        is_blacklisted == IsBlacklisted(BlacklistOverride(a), o = "blacklisted")
        e2c == IF CallbackPassed(a)
               THEN e2 \o << E("callback", i, "eval") >> ELSE e2
        e3 == e2c \o << E("eval", i, IF is_blacklisted THEN "true" ELSE "false") >>
                  \o ( IF RemovalTriggered(CallbackPassed(a), is_blacklisted)
                       THEN << E("remove_recommended", i, "eval") >>
                       ELSE << >> )
        rt_gate == RtGateActive(a, c)
        e4 == IF rt_gate
              THEN e3 \o << E("rt", i, IF o = "rt_below"
                                       THEN "false" ELSE "true") >>
              ELSE e3
        tags_call == a.media_type = "shows" /\ c.sonarr_tags
        \* line 634: get_language_profile_id logs when it resolves no id
        \* and returns what it got
        lang_call == a.media_type = "shows"
        e4l == IF lang_call
               THEN e4 \o (IF o = "lang_none"
                           THEN << E("language_profile", i, "None"),
                                   E("log_error", i, "language") >>
                           ELSE << E("language_profile", i, "ok") >>)
               ELSE e4
        e5 == IF tags_call
              THEN e4l \o << E("get_tags", i, IF o = "tags_exit"
                                              THEN "None" ELSE "ok") >>
              ELSE e4l
        add_result == o # "add_fail"
        n == CountAfterSubmit(count, add_result)
    IN
    \* lines 571-579 are outside the try block
    IF o = "no_key" THEN R(<< E("raise", i, "fields") >>, "raise", count)
    \* line 583
    ELSE IF o = "raise_validate" THEN Caught(<< >>, "validate")
    ELSE IF TmdbRejects(o # "invalid") THEN R(e1, "next", count)
    \* line 587
    ELSE IF genre_gate /\ o = "genre_miss" THEN R(e2, "next", count)
    \* lines 593-606
    ELSE IF o = "raise_eval"
         THEN Caught(e2c \o << E("eval", i, "raise") >>, "eval")
    \* lines 608, 690-692
    ELSE IF ~ShouldAdd(is_blacklisted)
         THEN R(e3 \o << E("log_info", i, "skipped") >>, "next", count)
    \* lines 610-618
    ELSE IF rt_gate /\ o = "rt_below" THEN R(e4, "next", count)
    \* lines 628-629
    ELSE IF DryRunSkips(a.dry_run)
         THEN R(e4 \o << E("log_info", i, "dry_run") >>, "tail", count)
    \* lines 632-647: get_profile_tags exits when the tags are not retrieved
    ELSE IF tags_call /\ o = "tags_exit" THEN R(e5 \o << E("log_error", i, "tags") >>, "exit", count)
    \* lines 655-677
    ELSE IF o = "raise_add"
         THEN Caught(e5 \o << E("submit", i, "raise") >>, "submit")
    \* lines 679-689
    ELSE IF add_result
         THEN R(e5 \o << E("submit", i, "ok") >>
                   \o (IF a.notifications /\ c.verbose
                       THEN << E("notify", i, "add") >> ELSE << >>),
                "tail", n)
         ELSE R(e5 \o << E("submit", i, "fail"), E("log_error", i, "add") >>,
                "next", n)

\* where the invocation stands once the loop has moved to position i
AfterItem(i) == IF i > Len(sorted_list.items) THEN "report" ELSE "loop"

\* lines 567-702: one iteration of the for loop
ProcessItem ==
    /\ pc = "loop"
    /\ \E o \in ItemOutcomes :
        LET sorted_item == CurrentItem(sorted_list.items, idx)
            r == ItemRun(args, cfg, genres, o, sorted_item.id, added_count)
            added == \E k \in 1..Len(r.evs) :
                        r.evs[k].ev = "submit" /\ r.evs[k].res = "ok"
        IN /\ added_count' = r.count
           /\ library' = IF added
                         THEN library \cup { sorted_item.id }
                         ELSE library
           /\ IF r.ctl = "raise"
              THEN /\ trace' = trace \o r.evs
                   /\ idx' = idx
                   /\ pc' = "raised"
              ELSE IF r.ctl = "exit"
              THEN /\ trace' = trace \o r.evs
                   /\ idx' = idx
                   /\ pc' = "exited"
              ELSE IF r.ctl = "next"
              THEN /\ trace' = trace \o r.evs
                   /\ idx' = NextItem(idx)
                   /\ pc' = AfterItem(NextItem(idx))
              \* line 695: break
              ELSE IF LimitReached(args.add_limit, r.count)
              THEN /\ trace' = trace \o r.evs
                   /\ idx' = idx
                   /\ pc' = "report"
              \* line 699: sleep
              ELSE /\ trace' = trace \o r.evs \o << E("sleep", sorted_item.id, "-") >>
                   /\ idx' = NextItem(idx)
                   /\ pc' = AfterItem(NextItem(idx))
    /\ UNCHANGED << cfg, exclusions, args, genres, pvr_objects_list,
                    pvr_exclusions_list, trakt_objects_list, processed_list,
                    removal_successful, sorted_list, result >>
    /\ UNCHANGED << scheduler, automatic, notifier >>

\* lines 704-710: the total is logged, announced and returned
Report ==
    /\ pc = "report"
    /\ trace' = trace \o << E("log_info", 0, "added") >>
                 \o (IF SummarySent(args.notifications, cfg.verbose, added_count)
                     THEN << E("notify", 0, "summary") >> ELSE << >>)
    /\ result' = ReturnCount(added_count)
    /\ pc' = "returned"
    /\ UNCHANGED << cfg, world, args, genres, locals >>
    /\ UNCHANGED << scheduler, automatic, notifier >>

Next ==
    \/ Invoke
    \/ ValidateCredentials
    \/ GetQualityProfile
    \/ GetObjects
    \/ FetchList
    \/ Reconcile
    \/ Sort
    \/ ProcessItem
    \/ Report

Spec == Init /\ [][Next]_vars

\* ------------------------------------- two invocations one after the other
\* the arguments of the invocation that is made twice
TwiceArgs ==
    { Arg(mt, lim, FALSE, FALSE, None, FALSE, None) :
        mt \in {"shows", "movies"}, lim \in {0, 1} }

\* the configuration is the plain one
InitTwice ==
    /\ Init
    /\ cfg = Cfg(FALSE, FALSE)

InvokeFirst ==
    /\ pc = "idle"
    /\ \E a \in TwiceArgs : ProcessArguments(a)
    /\ UNCHANGED << world, pvr_objects_list, pvr_exclusions_list,
                    trakt_objects_list, processed_list, removal_successful,
                    sorted_list, idx, result, trace >>
    /\ UNCHANGED << scheduler, automatic, notifier >>

\* _process_media is called a second time with the arguments of the first
\* call; of the first invocation the history keeps the successful
\* submissions, and the inventory target keeps what it was given
InvokeAgain ==
    /\ pc \in { "returned", "raised" }
    /\ ~Has(trace, "second_call")
    /\ ProcessArguments(args)
    /\ trakt_objects_list' = UnsetList
    /\ processed_list' = UnsetList
    /\ removal_successful' = FALSE
    /\ sorted_list' = UnsetList
    /\ idx' = 0
    /\ result' = NoReturn
    /\ trace' = SelectSeq(trace, LAMBDA e : e.ev = "submit" /\ e.res = "ok")
                 \o << E("second_call", 0, "-") >>
    /\ UNCHANGED << world, pvr_objects_list, pvr_exclusions_list >>
    /\ UNCHANGED << scheduler, automatic, notifier >>

NextTwice ==
    \/ InvokeFirst
    \/ ValidateCredentials
    \/ GetQualityProfile
    \/ GetObjects
    \/ FetchList
    \/ Reconcile
    \/ Sort
    \/ ProcessItem
    \/ Report
    \/ InvokeAgain

SpecTwice == InitTwice /\ [][NextTwice]_vars

\* -------------------------------------------------- run_automatic_mode
\* no _process_media invocation is followed
PipelineIdle ==
    /\ cfg = Cfg(FALSE, FALSE)
    /\ library = {}
    /\ exclusions = {}
    /\ pc = "idle"
    /\ args = Arg("shows", 0, FALSE, FALSE, None, FALSE, None)
    /\ genres = None
    /\ pvr_objects_list = {}
    /\ pvr_exclusions_list = {}
    /\ trakt_objects_list = UnsetList
    /\ processed_list = UnsetList
    /\ removal_successful = FALSE
    /\ sorted_list = UnsetList
    /\ idx = 0
    /\ added_count = 0
    /\ result = NoReturn
    /\ trace = << >>

\* lines 1259-1276: run_automatic_mode is called, scheduled_tasks is empty
InitAutomatic ==
    /\ PipelineIdle
    /\ AutomaticOff
    /\ NotifierOff
    /\ intervals \in IntervalConfigs
    /\ run_now \in BOOLEAN
    /\ add_delay \in AddDelayChoices
    /\ spc = "schedule"
    /\ call = 1
    /\ now = StartTime
    /\ scheduled_tasks = << >>
    /\ last_schedule_log = 0
    /\ runnable = << >>
    /\ running = {}
    /\ iterations = 0
    /\ slog = << >>

\* where run_automatic_mode stands after schedule_task call c
AfterCall(c) == IF c = Len(TaskNames) THEN "scheduled" ELSE "schedule"

\* lines 1288-1305: one schedule_task call, up to the start of its
\* immediate run
ScheduleTask ==
    /\ spc = "schedule"
    /\ LET interval == GetInterval(intervals, call)
           task == Job(call, interval, now)
           created == << SE("create", task.tag, now, task.next_run) >>
       IN IF ~ShouldSchedule(interval)
          THEN /\ spc' = AfterCall(call)
               /\ call' = call + 1
               /\ UNCHANGED << scheduled_tasks, running, slog >>
          ELSE IF ~RunsImmediately(run_now)
          THEN /\ scheduled_tasks' = Append(scheduled_tasks, task)
               /\ slog' = slog \o created
               /\ spc' = AfterCall(call)
               /\ call' = call + 1
               /\ UNCHANGED running
          \* line 1305: task.run() is entered
          ELSE /\ scheduled_tasks' = Append(scheduled_tasks, task)
               /\ slog' = slog \o created
                      \o << SE("run", task.tag, now, task.next_run) >>
               /\ running' = running \cup { Len(scheduled_tasks) + 1 }
               /\ spc' = "immediate"
               /\ call' = call
    /\ UNCHANGED << intervals, run_now, add_delay, now, last_schedule_log,
                    runnable, iterations, pipeline,
                    automatic, notifier >>

\* lines 1305-1308: the immediate run ends, followed by the sleep
FinishImmediateRun ==
    /\ spc = "immediate"
    /\ \E j \in running, d \in Durations, o \in TaskOutcomes :
         LET job == scheduled_tasks[j]
             finished == now + d
             next_due == NextRunAfter(finished, job.next_run, job.interval)
         IN /\ running' = running \ { j }
            /\ IF o = "returns"
               THEN /\ scheduled_tasks' =
                         [scheduled_tasks EXCEPT ![j].next_run = next_due]
                    /\ slog' = slog
                           \o << SE("done", job.tag, finished, next_due),
                                 SE("sleep", "delay", finished, add_delay) >>
                    /\ now' = finished + add_delay
                    /\ spc' = AfterCall(call)
               \* task.run() is not inside a try block
               ELSE /\ slog' = slog
                           \o << SE(IF o = "raises" THEN "raised" ELSE "exit",
                                    job.tag, finished, 0) >>
                    /\ now' = finished
                    /\ spc' = IF o = "raises" THEN "crashed" ELSE "exited"
                    /\ UNCHANGED scheduled_tasks
    /\ call' = call + 1
    /\ UNCHANGED << intervals, run_now, add_delay, last_schedule_log,
                    runnable, iterations, pipeline,
                    automatic, notifier >>

\* lines 1317-1332: the schedule, or the warning that there is none
LogInitialSchedule ==
    /\ spc = "scheduled"
    /\ slog' = slog \o << IF NoTasksWarned(scheduled_tasks)
                          THEN SE("warning", "-", now, 0)
                          ELSE SE("scheduled", "-", now, Len(scheduled_tasks)) >>
    /\ last_schedule_log' = 0
    /\ spc' = "loop"
    /\ UNCHANGED << intervals, run_now, add_delay, call, now, scheduled_tasks,
                    runnable, running, iterations, pipeline,
                    automatic, notifier >>

\* lines 1334-1363: one round of the steady loop up to run_pending
LoopSleep ==
    /\ spc = "loop"
    /\ iterations < MaxIterations
    /\ LET status == StatusDue(now, last_schedule_log)
           logged == IF status THEN << SE("status", "-", now, 0) >> ELSE << >>
           idle == IdleSeconds(scheduled_tasks, now)
       IN /\ last_schedule_log' = IF status THEN now ELSE last_schedule_log
          /\ IF idle.none
             \* line 1354 compares None with 0: the TypeError is caught at
             \* line 1365
             THEN /\ slog' = slog \o logged
                        \o << SE("exception", "-", now, 0),
                              SE("sleep", "recover", now, BriefPause) >>
                  /\ now' = now + BriefPause
                  /\ runnable' = << >>
                  /\ spc' = "loop"
             ELSE LET d == SleepFor(idle.secs)
                      due == Runnable(scheduled_tasks, now + d)
                  IN /\ slog' = slog \o logged
                           \o << SE("idle", "-", now, idle.secs),
                                 SE("sleep", IF idle.secs > 0 THEN "idle"
                                             ELSE "pause", now, d),
                                 SE("check", "-", now + d, 0) >>
                     /\ now' = now + d
                     /\ runnable' = due
                     /\ spc' = IF due = << >> THEN "loop" ELSE "pending"
    /\ iterations' = iterations + 1
    /\ UNCHANGED << intervals, run_now, add_delay, call, scheduled_tasks,
                    running, pipeline,
                    automatic, notifier >>

\* line 1363: run_pending enters the next job that was due
StartPendingJob ==
    /\ MayStart(spc)
    /\ runnable # << >>
    /\ LET j == Head(runnable)
           job == scheduled_tasks[j]
       IN /\ running' = running \cup { j }
          /\ slog' = slog \o << SE("run", job.tag, now, job.next_run) >>
    /\ runnable' = Tail(runnable)
    /\ spc' = "running"
    /\ UNCHANGED << intervals, run_now, add_delay, call, now, scheduled_tasks,
                    last_schedule_log, iterations, pipeline,
                    automatic, notifier >>

\* lines 1363-1367: the job that is running ends
FinishPendingJob ==
    /\ spc = "running"
    /\ \E j \in running, d \in Durations, o \in TaskOutcomes :
         LET job == scheduled_tasks[j]
             finished == now + d
             next_due == NextRunAfter(finished, job.next_run, job.interval)
         IN /\ running' = running \ { j }
            /\ IF o = "returns"
               THEN /\ scheduled_tasks' =
                         [scheduled_tasks EXCEPT ![j].next_run = next_due]
                    /\ slog' = slog
                           \o << SE("done", job.tag, finished, next_due) >>
                    /\ now' = finished
                    /\ runnable' = runnable
                    /\ spc' = IF runnable = << >> THEN "loop" ELSE "pending"
               \* lines 1365-1367: the exception leaves run_pending
               ELSE IF CaughtInLoop(o)
               THEN /\ slog' = slog
                           \o << SE("raised", job.tag, finished, 0),
                                 SE("exception", job.tag, finished, 0),
                                 SE("sleep", "recover", finished, BriefPause) >>
                    /\ now' = finished + BriefPause
                    /\ runnable' = << >>
                    /\ spc' = "loop"
                    /\ UNCHANGED scheduled_tasks
               ELSE /\ slog' = slog
                           \o << SE(IF o = "raises" THEN "raised" ELSE "exit",
                                    job.tag, finished, 0) >>
                    /\ now' = finished
                    /\ runnable' = << >>
                    /\ spc' = IF o = "raises" THEN "crashed" ELSE "exited"
                    /\ UNCHANGED scheduled_tasks
    /\ UNCHANGED << intervals, run_now, add_delay, call, last_schedule_log,
                    iterations, pipeline,
                    automatic, notifier >>

NextAutomatic ==
    \/ ScheduleTask
    \/ FinishImmediateRun
    \/ LogInitialSchedule
    \/ LoopSleep
    \/ StartPendingJob
    \/ FinishPendingJob

SpecAutomatic == InitAutomatic /\ [][NextAutomatic]_vars

\* ------------------------------------------- the steady loop without end
\* The same steps with the clock read relative to the present moment and
\* without history: every stored time is moved back by the time that
\* passes, so that now stays where it is and the loop can be followed for
\* ever. Every execution of a task returns and no signal arrives.
Rebased(tasks, passed) ==
    [j \in 1..Len(tasks) |-> [tasks[j] EXCEPT !.next_run = @ - passed]]

\* the configurations followed for ever: at most two tasks
ForeverConfigs ==
    { iv \in IntervalConfigs : iv[3] = Absent /\ iv[4] = Absent }

InitForever ==
    /\ InitAutomatic
    /\ intervals \in ForeverConfigs

\* lines 1305-1308: the immediate run returns, followed by the sleep
ImmediateRunReturns ==
    /\ spc = "immediate"
    /\ \E j \in running, d \in Durations :
         LET job == scheduled_tasks[j]
             finished == now + d
             next_due == NextRunAfter(finished, job.next_run, job.interval)
             passed == d + add_delay
         IN /\ running' = running \ { j }
            /\ scheduled_tasks' =
                 Rebased([scheduled_tasks EXCEPT ![j].next_run = next_due],
                         passed)
            /\ last_schedule_log' = last_schedule_log - passed
            /\ spc' = AfterCall(call)
    /\ call' = call + 1
    /\ UNCHANGED << intervals, run_now, add_delay, now, runnable, iterations,
                    slog, pipeline, automatic, notifier >>

\* lines 1334-1363: one round of the steady loop up to run_pending
LoopRound ==
    /\ spc = "loop"
    /\ LET status == StatusDue(now, last_schedule_log)
           logged == IF status THEN now ELSE last_schedule_log
           idle == IdleSeconds(scheduled_tasks, now)
       IN IF idle.none
          THEN /\ last_schedule_log' = logged - BriefPause
               /\ runnable' = << >>
               /\ spc' = "loop"
               /\ UNCHANGED scheduled_tasks
          ELSE LET d == SleepFor(idle.secs)
                   due == Runnable(scheduled_tasks, now + d)
               IN /\ last_schedule_log' = logged - d
                  /\ scheduled_tasks' = Rebased(scheduled_tasks, d)
                  /\ runnable' = due
                  /\ spc' = IF due = << >> THEN "loop" ELSE "pending"
    /\ UNCHANGED << intervals, run_now, add_delay, call, now, running,
                    iterations, slog, pipeline, automatic, notifier >>

\* line 1363: run_pending enters the next job that was due
PendingJobStarts ==
    /\ MayStart(spc)
    /\ runnable # << >>
    /\ running' = running \cup { Head(runnable) }
    /\ runnable' = Tail(runnable)
    /\ spc' = "running"
    /\ UNCHANGED << intervals, run_now, add_delay, call, now, scheduled_tasks,
                    last_schedule_log, iterations, slog, pipeline, automatic,
                    notifier >>

\* line 1363: the job that is running returns
PendingJobReturns ==
    /\ spc = "running"
    /\ \E j \in running, d \in Durations :
         LET job == scheduled_tasks[j]
             finished == now + d
             next_due == NextRunAfter(finished, job.next_run, job.interval)
         IN /\ running' = running \ { j }
            /\ scheduled_tasks' =
                 Rebased([scheduled_tasks EXCEPT ![j].next_run = next_due], d)
            /\ last_schedule_log' = last_schedule_log - d
            /\ spc' = IF runnable = << >> THEN "loop" ELSE "pending"
    /\ UNCHANGED << intervals, run_now, add_delay, call, now, runnable,
                    iterations, slog, pipeline, automatic, notifier >>

NextForever ==
    \/ ScheduleTask
    \/ ImmediateRunReturns
    \/ LogInitialSchedule
    \/ LoopRound
    \/ PendingJobStarts
    \/ PendingJobReturns

\* time advances, the pending-task check is made, every execution returns
FairForever ==
    /\ WF_vars(ScheduleTask)
    /\ WF_vars(ImmediateRunReturns)
    /\ WF_vars(LogInitialSchedule)
    /\ WF_vars(LoopRound)
    /\ WF_vars(PendingJobStarts)
    /\ WF_vars(PendingJobReturns)

SpecForever == InitForever /\ [][NextForever]_vars /\ FairForever

\* ------------------------------------------------- the termination signal
\* run_automatic_mode has not ended
Alive ==
    spc \in { "schedule", "immediate", "scheduled", "loop", "pending",
              "running" }

\* lines 1389-1392: exit_handler runs when SIGTERM or SIGINT arrives,
\* wherever the process stands: it clears the jobs and raises SystemExit
ExitHandler ==
    /\ Alive
    /\ slog' = slog \o << SE("signal", "-", now, 0),
                           SE("clear", "-", now, Len(scheduled_tasks)),
                           SE("exit", "-", now, 0) >>
    /\ scheduled_tasks' = << >>
    /\ runnable' = << >>
    /\ spc' = "cancelled"
    /\ UNCHANGED << intervals, run_now, add_delay, call, now,
                    last_schedule_log, running, iterations, pipeline,
                    automatic, notifier >>

NextCancellable ==
    \/ NextAutomatic
    \/ ExitHandler

SpecCancellable == InitAutomatic /\ [][NextCancellable]_vars

\* ------------------------------------------------------ _automatic_media
\* lines 1117-1126: _automatic_media is called with a list_filter
InitTask ==
    /\ PipelineIdle
    /\ SchedulerOff
    /\ NotifierOff
    /\ list_filter \in ListFilters
    /\ automatic_config \in AutomaticConfigs
    /\ task_media_type \in TaskMediaTypes
    /\ task_ignore_blacklist \in BOOLEAN
    /\ task_notifications \in BOOLEAN
    /\ disabled_for \in DisabledForChoices
    /\ tpc = "called"
    /\ key_pos = 1
    /\ entry_pos = 1
    /\ added_items = ReturnNone
    /\ total_added = 0
    /\ tlog = << >>

\* lines 1099-1126: an unknown media_type raises ValueError, otherwise the
\* task starts
CallTask ==
    /\ tpc = "called"
    /\ IF ValidMediaType(task_media_type)
       THEN /\ tlog' = << TE("started", << >>, "-", 0, NoOutcome) >>
                        \o ( IF task_notifications /\ cfg.verbose
                             THEN << TE("notify", << >>, "-", 0,
                                        NoOutcome) >>
                             ELSE << >> )
            /\ tpc' = "loop"
       ELSE /\ tlog' = << TE("raise", << >>, "-", 0,
                              Outcome("raise", 0, "ValueError")) >>
            /\ tpc' = "raised"
    /\ UNCHANGED << taskargs, key_pos, entry_pos, added_items, total_added,
                    pipeline, scheduler, notifier >>

\* the key the for loop of line 1128 stands at
AtKey == tpc = "loop" /\ key_pos <= Len(automatic_config)

\* lines 1239-1247: after the branches, the count of the last invocation
\* of the key is added to the total
AfterBranches(log, items, k) ==
    /\ tlog' = log
                \o ( IF items.ret = "None" /\ k.name # << "lists" >>
                     THEN << TE("failed", k.name, "-", 0, NoOutcome) >>
                     ELSE << >> )
                \o << TE("sleep", k.name, "-", 10, NoOutcome) >>
    /\ total_added' = IF items.ret = "None" THEN total_added
                      ELSE total_added + items.val
    /\ key_pos' = key_pos + 1
    /\ entry_pos' = 1
    /\ tpc' = "loop"

\* what _process_media left in added_items
Returned(o) == IF o.ret = "count" THEN ReturnCount(o.val) ELSE ReturnNone

\* lines 1254-1256: SystemExit passes the handler, an Exception ends the
\* task, which returns the total so far
Leaves(log, o) ==
    /\ tlog' = log \o ( IF CaughtInTask(o.ret)
                        THEN << TE("exception", << >>, "-", 0, NoOutcome),
                                TE("return", << >>, "-", total_added,
                                   NoOutcome) >>
                        ELSE << >> )
    /\ tpc' = IF CaughtInTask(o.ret) THEN "returned"
              ELSE IF o.ret = "raise" THEN "raised" ELSE "exited"
    /\ UNCHANGED << key_pos, entry_pos, total_added >>

\* lines 1129-1144: 'intervals' and the keys the list_filter leaves out
SkipKey ==
    /\ AtKey
    /\ LET k == automatic_config[key_pos]
       IN  /\ IsIntervalsKey(k.name) \/ ~Selected(list_filter, k.name)
           /\ added_items' = ReturnNone
           /\ key_pos' = key_pos + 1
    /\ UNCHANGED << taskargs, tpc, entry_pos,
                    total_added, tlog, pipeline, scheduler,
                    notifier >>

\* lines 1146-1172 and 1239-1247: a public list
PublicList ==
    /\ AtKey
    /\ LET k == automatic_config[key_pos]
       IN  /\ ~IsIntervalsKey(k.name)
           /\ Selected(list_filter, k.name)
           /\ IsPublicList(k.name)
           /\ IF LimitSkips(k.limit)
              THEN /\ tlog' = tlog
                               \o << TE("skipped", k.name, "-", k.limit,
                                        NoOutcome) >>
                   /\ added_items' = ReturnNone
                   /\ key_pos' = key_pos + 1
                   /\ UNCHANGED << tpc, entry_pos, total_added >>
              ELSE \E o \in InvocationOutcomes(k.limit) :
                     LET log == tlog
                                 \o << TI(k.name, "-", k.limit,
                                          LocalIgnoreBlacklist(
                                            task_ignore_blacklist,
                                            ListKey(k.name), disabled_for)),
                                       TE("result", k.name, "-", k.limit,
                                          o) >>
                     IN  /\ added_items' = Returned(o)
                         /\ IF o.ret \in { "exit", "raise" }
                            THEN Leaves(log, o)
                            ELSE AfterBranches(log, Returned(o), k)
    /\ UNCHANGED << taskargs, pipeline, scheduler,
                    notifier >>

\* the key is 'watchlist' or 'lists'
IsMapping(name) == name \in { << "watchlist" >>, << "lists" >> }

\* lines 1174-1237: one round of the inner loop over the watchlist users
\* or the custom lists, and lines 1239-1247 after its last round
MappingEntry ==
    /\ AtKey
    /\ LET k == automatic_config[key_pos]
       IN  /\ ~IsIntervalsKey(k.name)
           /\ Selected(list_filter, k.name)
           /\ ~IsPublicList(k.name)
           /\ IsMapping(k.name)
           /\ IF Len(k.entries) = 0
              THEN /\ added_items' = ReturnNone
                   /\ IF k.name = << "lists" >>
                      THEN /\ tlog' = tlog
                                       \o << TE("skipped", k.name, "-", 0,
                                                NoOutcome) >>
                           /\ key_pos' = key_pos + 1
                           /\ UNCHANGED << tpc, entry_pos, total_added >>
                      ELSE AfterBranches(tlog, ReturnNone, k)
              ELSE LET e == k.entries[entry_pos]
                       items == IF entry_pos = 1 THEN ReturnNone
                                ELSE added_items
                       last == entry_pos = Len(k.entries)
                   IN  IF LimitSkips(e.limit)
                       THEN LET log == tlog
                                        \o << TE("skipped", k.name, e.name,
                                                 e.limit, NoOutcome) >>
                            IN  /\ added_items' = items
                                /\ IF last
                                   THEN AfterBranches(log, items, k)
                                   ELSE /\ tlog' = log
                                        /\ entry_pos' = entry_pos + 1
                                        /\ UNCHANGED << tpc, key_pos,
                                                        total_added >>
                       ELSE \E o \in InvocationOutcomes(e.limit) :
                              LET log == tlog
                                          \o << TI(k.name, e.name, e.limit,
                                                   LocalIgnoreBlacklist(
                                                     task_ignore_blacklist,
                                                     EntryKey(k.name, e.name),
                                                     disabled_for)),
                                                TE("result", k.name, e.name,
                                                   e.limit, o) >>
                              IN  /\ added_items' = Returned(o)
                                  /\ IF o.ret \in { "exit", "raise" }
                                     THEN Leaves(log, o)
                                     ELSE IF last
                                     THEN AfterBranches(log, Returned(o), k)
                                     ELSE /\ tlog' = log
                                          /\ entry_pos' = entry_pos + 1
                                          /\ UNCHANGED << tpc, key_pos,
                                                          total_added >>
    /\ UNCHANGED << taskargs, pipeline, scheduler,
                    notifier >>

\* lines 1146-1202 and 1239-1243: a key that is none of the three kinds
\* takes no branch
OtherKey ==
    /\ AtKey
    /\ LET k == automatic_config[key_pos]
       IN  /\ ~IsIntervalsKey(k.name)
           /\ Selected(list_filter, k.name)
           /\ ~IsPublicList(k.name)
           /\ ~IsMapping(k.name)
           /\ added_items' = ReturnNone
           /\ AfterBranches(tlog, ReturnNone, k)
    /\ UNCHANGED << taskargs, pipeline, scheduler,
                    notifier >>

\* lines 1249-1256: the loop is over, the total is returned
FinishTask ==
    /\ tpc = "loop"
    /\ key_pos > Len(automatic_config)
    /\ tlog' = tlog
                \o << TE("finished", << >>, "-", total_added, NoOutcome) >>
                \o ( IF TaskSummarySent(task_notifications, cfg.verbose,
                                        total_added)
                     THEN << TE("notify", << >>, "-", total_added,
                                NoOutcome) >>
                     ELSE << >> )
                \o << TE("return", << >>, "-", total_added, NoOutcome) >>
    /\ tpc' = "returned"
    /\ UNCHANGED << taskargs, key_pos, entry_pos,
                    added_items, total_added, pipeline, scheduler,
                    notifier >>

NextTask ==
    \/ CallTask
    \/ SkipKey
    \/ PublicList
    \/ MappingEntry
    \/ OtherKey
    \/ FinishTask

SpecTask == InitTask /\ [][NextTask]_vars

\* --------------------------------------------------------- Discord.send
InitDiscord ==
    /\ PipelineIdle
    /\ SchedulerOff
    /\ AutomaticOff
    /\ discord \in DiscordObjects
    /\ dlog = << >>

\* notifications/discord.py lines 17-38: one call of send
Send ==
    /\ Len(dlog) < MaxSends
    /\ \E kwargs \in SendKwargs, answer \in PostAnswers :
         dlog' = Append(dlog,
           IF FieldsMissing(discord)
           THEN DE(kwargs, FALSE, NoPayload, NoAnswer, "error", FALSE, None)
           ELSE IF PayloadRaises(kwargs) # None
           THEN IF CaughtBySend(PayloadRaises(kwargs))
                THEN DE(kwargs, FALSE, NoPayload, NoAnswer, "exception",
                        FALSE, None)
                ELSE DE(kwargs, FALSE, NoPayload, NoAnswer, "-", FALSE,
                        PayloadRaises(kwargs))
           ELSE IF answer.raises # None
           THEN IF CaughtBySend(answer.raises)
                THEN DE(kwargs, TRUE, Payload(discord, kwargs), answer,
                        "exception", FALSE, None)
                ELSE DE(kwargs, TRUE, Payload(discord, kwargs), answer,
                        "-", FALSE, answer.raises)
           ELSE DE(kwargs, TRUE, Payload(discord, kwargs), answer, "-",
                   Delivered(answer.status_code), None))
    /\ UNCHANGED << discord, pipeline, scheduler, automatic >>

NextDiscord == Send

SpecDiscord == InitDiscord /\ [][NextDiscord]_vars

\* ------------------------------------------------------------ type check
TypeOK ==
    /\ pc \in { "idle", "validate", "profile", "objects", "fetch",
                "reconcile", "sort", "loop", "report", "returned",
                "exited", "raised" }
    /\ added_count \in 0..MaxItems
    /\ idx \in 0..(MaxItems + 1)

\* ---------------------------------------------------------------- claims
Evs == 1..Len(trace)

IsEv(k, ev) == trace[k].ev = ev
IsEvRes(k, ev, res) == trace[k].ev = ev /\ trace[k].res = res

\* position of the envelope with id i in sorted_list (ids are distinct)
PosOf(i) ==
    CHOOSE p \in 1..Len(sorted_list.items) : sorted_list.items[p].id = i

Reported == \E k \in Evs : trace[k] = E("log_info", 0, "added")

\* C1: with dry_run = true the submit operation is never called, whatever
\* the gates decide, and an invocation that reaches the report step
\* returns 0.
C1_DryRunNeverSubmits ==
    args.dry_run =>
        /\ ~Has(trace, "submit")
        /\ pvr_objects_list # {} => library = pvr_objects_list
        /\ (Reported => result = ReturnCount(0))

C1_Witness ==
    /\ args.dry_run
    /\ pc = "returned"
    /\ result = ReturnCount(0)
    /\ CountRes(trace, "log_info", "dry_run") >= 2

\* the items of the invocation that passed every gate and were handed to
\* the submit operation
Eligible == Count(trace, "submit")

\* C2 (as claimed): with add_limit = N > 0 and at least N eligible items the
\* invocation makes exactly N submit calls.
C2_ExactlyNSubmitCalls ==
    (pc = "returned" /\ Reported /\ args.add_limit > 0
        /\ Eligible >= args.add_limit)
    => Count(trace, "submit") = args.add_limit

\* C2 (amended): with add_limit = N > 0 the invocation never has more than N
\* successful submit calls; the N-th success ends the loop, so that no later
\* item is evaluated or submitted; and while fewer than N submit calls have
\* succeeded the loop does not stop before the list is exhausted.
C2_StopsAtNthSuccess ==
    args.add_limit > 0 =>
        /\ CountRes(trace, "submit", "ok") <= args.add_limit
        /\ CountRes(trace, "submit", "ok") = args.add_limit =>
            /\ pc \in { "report", "returned" }
            /\ \E k \in Evs :
                /\ IsEvRes(k, "submit", "ok")
                /\ PosOf(trace[k].item) = idx
                /\ \A m \in Evs :
                      trace[m].item # 0 => PosOf(trace[m].item) <= idx
        /\ (pc \in { "report", "returned" } /\ sorted_list.st = "list"
              /\ CountRes(trace, "submit", "ok") < args.add_limit)
           => idx > Len(sorted_list.items)

C2_Witness ==
    /\ args.add_limit > 0
    /\ pc = "returned"
    /\ result = ReturnCount(args.add_limit)
    /\ Count(trace, "submit") > args.add_limit
    /\ idx < Len(sorted_list.items)

\* the list source answered None or an empty list
FetchedNothing ==
    \/ trakt_objects_list.st = "None"
    \/ trakt_objects_list.st = "list" /\ trakt_objects_list.items = << >>

\* C3: when the list source returns None or an empty list the invocation
\* returns None, performs no reconciliation, sort, blacklist evaluation or
\* submit, and sends an abort notification exactly when notifications are
\* enabled.
C3_FetchFailureAborts ==
    FetchedNothing =>
        /\ pc = "returned"
        /\ result = ReturnNone
        /\ ~Has(trace, "reconcile")
        /\ ~Has(trace, "sort")
        /\ ~Has(trace, "eval")
        /\ ~Has(trace, "submit")
        /\ CountRes(trace, "notify", "abort")
              = (IF args.notifications THEN 1 ELSE 0)

C3_Witness ==
    /\ trakt_objects_list = SomeList(<< >>)
    /\ pc = "returned"
    /\ args.notifications
    /\ trace[Len(trace)] = E("notify", 0, "abort")
    /\ result = ReturnNone

\* reconciliation succeeded and left nothing to process
NothingLeft ==
    /\ processed_list.st # "unset"
    /\ processed_list.st = "list" \/ removal_successful
    /\ \A k \in 1..Len(trakt_objects_list.items) :
          trakt_objects_list.items[k].id
              \in (pvr_objects_list \cup pvr_exclusions_list)

\* C4: when reconciliation succeeds but leaves nothing to process, the
\* invocation returns None, logs no reconciliation error, sends no abort
\* notification and submits nothing, for shows and for movies.
C4_NothingLeftReturnsNone ==
    (NothingLeft /\ pc = "returned") =>
        /\ result = ReturnNone
        /\ ~(\E k \in Evs : trace[k] = E("log_error", 0, "reconcile"))
        /\ ~(\E k \in Evs : trace[k] = E("notify", 0, "abort"))
        /\ ~Has(trace, "submit")

\* C5: an exception raised while one item is processed never ends the
\* invocation: it is caught and logged and the loop goes on.
C5_ItemExceptionsContained ==
    \A k \in Evs :
        IsEv(k, "raise") =>
            /\ pc # "raised"
            /\ k < Len(trace) /\ IsEv(k + 1, "log_exception")

\* C6: the returned count is the number of submit calls that reported
\* success; a failed submit call leaves the count alone and the loop moves
\* on to the next item.
C6_CountEqualsSuccessfulSubmits ==
    /\ added_count = CountRes(trace, "submit", "ok")
    /\ result.ret = "count" => result.val = CountRes(trace, "submit", "ok")
    /\ \A k \in Evs :
          IsEvRes(k, "submit", "fail") => idx > PosOf(trace[k].item)

C6_Witness ==
    /\ pc = "returned"
    /\ result = ReturnCount(1)
    /\ \E j, k \in Evs :
          j < k /\ IsEvRes(j, "submit", "fail") /\ IsEvRes(k, "submit", "ok")

\* C7: between any two successive submit calls of an invocation the
\* add_delay is slept, also when the earlier submission failed.
C7_DelayBetweenSubmits ==
    \A j, k \in Evs :
        (j < k /\ IsEv(j, "submit") /\ IsEv(k, "submit"))
        => \E m \in (j + 1)..(k - 1) : IsEv(m, "sleep")

\* C8: the items handed to blacklist evaluation, and the items submitted,
\* are taken in the order of the sorted list, and none of them twice.
C8_ItemsInSortedOrder ==
    \A j, k \in Evs :
        /\ IsEv(k, "eval") \/ IsEv(k, "submit") =>
              \E p \in 1..Len(sorted_list.items) :
                  sorted_list.items[p].id = trace[k].item
        /\ (j < k /\ IsEv(j, "eval") /\ IsEv(k, "eval"))
              => PosOf(trace[j].item) < PosOf(trace[k].item)
        /\ (j < k /\ IsEv(j, "submit") /\ IsEv(k, "submit"))
              => PosOf(trace[j].item) < PosOf(trace[k].item)

C8_Witness ==
    /\ pc = "returned"
    /\ Count(trace, "eval") = 3
    /\ Count(trace, "submit") = 2
    /\ sorted_list.items # processed_list.items

\* C9: the list source is queried once, reconciliation runs once and only
\* after a non-empty list was fetched, the sort runs once and only after
\* reconciliation, and every blacklist evaluation and submit call comes
\* after the sort.
C9_StageOrder ==
    /\ Count(trace, "fetch") <= 1
    /\ Count(trace, "reconcile") <= 1
    /\ Count(trace, "sort") <= 1
    /\ result.ret # "unset" => Count(trace, "fetch") = 1
    /\ result.ret = "count" =>
          Count(trace, "reconcile") = 1 /\ Count(trace, "sort") = 1
    /\ \A k \in Evs :
          /\ IsEv(k, "reconcile") =>
                /\ \E j \in 1..(k - 1) : IsEv(j, "fetch")
                /\ trakt_objects_list.st = "list"
                /\ trakt_objects_list.items # << >>
          /\ IsEv(k, "sort") => \E j \in 1..(k - 1) : IsEv(j, "reconcile")
          /\ IsEv(k, "eval") \/ IsEv(k, "submit") =>
                \E j \in 1..(k - 1) : IsEv(j, "sort")

C9_Witness ==
    /\ pc = "returned"
    /\ result.ret = "count"
    /\ Has(trace, "eval")
    /\ Has(trace, "submit")
    /\ Len(trakt_objects_list.items) > Len(processed_list.items)

\* C10: an item the blacklist evaluation rejects is never submitted and is
\* not counted, and the loop goes on to the following item.
C10_BlacklistedNeverSubmitted ==
    /\ added_count <= CountRes(trace, "eval", "false")
    /\ \A k \in Evs :
          IsEvRes(k, "eval", "true") =>
              /\ \A m \in Evs : IsEv(m, "submit") => trace[m].item # trace[k].item
              /\ idx > PosOf(trace[k].item)

C10_Witness ==
    /\ pc = "returned"
    /\ \E j, k \in Evs :
          j < k /\ IsEvRes(j, "eval", "true") /\ IsEvRes(k, "submit", "ok")


\* C11: when ignore_blacklist is true for an invocation, the blacklist
\* evaluation yields false for every envelope, so no item of the invocation
\* is skipped on blacklist grounds
C11_IgnoreBlacklistNeverSkips ==
    args.ignore_blacklist =>
        \A k \in Evs : /\ ~IsEvRes(k, "eval", "true")
                       /\ ~IsEvRes(k, "log_info", "skipped")

\* an invocation with the override has evaluated an envelope and returned
C11_Witness ==
    /\ args.ignore_blacklist
    /\ pc = "returned"
    /\ \E k \in Evs : IsEvRes(k, "eval", "false")
    /\ \E k \in Evs : IsEvRes(k, "submit", "ok")

\* C12: no invocation submits an envelope whose primary id is in the
\* inventory fetched at the start of the invocation (shows and movies) or in
\* the exclusion collection (movies)
C12_NoSubmitOfExistingOrExcluded ==
    \A k \in Evs :
        IsEv(k, "submit") =>
            /\ trace[k].item \notin pvr_objects_list
            /\ trace[k].item \notin pvr_exclusions_list

\* the fetched list held an envelope of the inventory and an excluded one,
\* and another envelope was submitted
C12_Witness ==
    /\ args.media_type = "movies"
    /\ \E j \in 1..Len(trakt_objects_list.items) :
          trakt_objects_list.items[j].id \in pvr_objects_list
    /\ \E j \in 1..Len(trakt_objects_list.items) :
          trakt_objects_list.items[j].id \in pvr_exclusions_list
    /\ \E k \in Evs : IsEvRes(k, "submit", "ok")

\* C14: the genre argument 'ignore' changes the blacklisted genres for that
\* invocation only: once the invocation has returned, the configured
\* blacklisted genres, which a later invocation of the same process reads,
\* are the ones configured before the call
C14_IgnoreGenresThisInvocationOnly ==
    (args.genres = "ignore" /\ pc = "returned") =>
        cfg.blacklisted_genres = ConfiguredGenres

\* C15: an envelope that lacks one of the id fields the loop reads is
\* skipped: it is never submitted and the invocation goes on to the items
\* after it
C15_MissingIdIsSkipped ==
    \A k \in Evs :
        IsEvRes(k, "raise", "fields") =>
            /\ pc # "raised"
            /\ \A j \in Evs : ~(IsEv(j, "submit") /\ trace[j].item = trace[k].item)
            /\ idx > PosOf(trace[k].item) \/ pc \in { "report", "returned" }

\* C16: at the report step a summary notification is sent exactly when
\* notifications are enabled and (they are verbose or something was added);
\* no summary is sent before the report step or with notifications disabled
C16_SummaryExactlyWhenEnabled ==
    /\ CountRes(trace, "notify", "summary") <= 1
    /\ ~args.notifications => CountRes(trace, "notify", "summary") = 0
    /\ ~Reported => CountRes(trace, "notify", "summary") = 0
    /\ Reported =>
        /\ result = ReturnCount(added_count)
        /\ CountRes(trace, "notify", "summary") = 1
             <=> (args.notifications /\ (cfg.verbose \/ added_count > 0))

\* the summary of an invocation that added nothing, sent because
\* notifications are verbose
C16_Witness ==
    /\ Reported
    /\ args.notifications
    /\ cfg.verbose
    /\ added_count = 0
    /\ CountRes(trace, "notify", "summary") = 1


\* position of the second call in the history (0 before it)
SecondCallAt ==
    IF Has(trace, "second_call")
    THEN CHOOSE k \in Evs : IsEv(k, "second_call")
    ELSE 0

\* C13: when the same invocation runs twice in sequence and the inventory
\* changes only by the successful submissions of the first run, the second
\* run submits none of the items the first run added
C13_SecondRunSubmitsNothingAdded ==
    LET c == SecondCallAt
    IN c > 0 =>
        \A j \in 1..(c - 1), k \in (c + 1)..Len(trace) :
            (IsEvRes(j, "submit", "ok") /\ IsEv(k, "submit"))
            => trace[k].item # trace[j].item

\* the second run was given a list that holds an item the first run added,
\* and went on to submit another one
C13_Witness ==
    /\ pc = "returned"
    /\ SecondCallAt > 0
    /\ \E j \in 1..(SecondCallAt - 1), k \in (SecondCallAt + 1)..Len(trace) :
          /\ IsEvRes(j, "submit", "ok") /\ IsEvRes(k, "submit", "ok")
          /\ \E p \in 1..Len(trakt_objects_list.items) :
                trakt_objects_list.items[p].id = trace[j].item


\* what is called on the list source, the inventory target and the rating
\* and catalogue services
AdapterCalls ==
    { "quality_profile", "get_objects", "get_exclusions", "fetch",
      "reconcile", "tmdb", "rt", "language_profile", "get_tags", "submit" }

\* C27: when credential validation fails for the list source or for the
\* inventory target the invocation is aborted: no adapter call and no submit
\* call is made after the failed validation
C27_FailedValidationAborts ==
    \A k \in Evs :
        (IsEvRes(k, "validate_trakt", "fail") \/ IsEvRes(k, "validate_pvr", "fail"))
        => \A j \in (k + 1)..Len(trace) : trace[j].ev \notin AdapterCalls

\* C28: when a required profile id is not resolved (quality profile, or the
\* language profile for shows) the invocation is aborted and no item is
\* submitted with the unresolved id
C28_UnresolvedProfileAborts ==
    \A k \in Evs :
        (IsEvRes(k, "quality_profile", "fail") \/ IsEvRes(k, "language_profile", "None"))
        => /\ \A j \in (k + 1)..Len(trace) : ~IsEv(j, "submit")
           /\ pc \in { "exited", "returned" }

\* ------------------------------------------------ claims on the scheduler
SEvs == 1..Len(slog)

\* the schedule_task calls whose configured interval is strictly positive
PositiveCalls == { c \in Calls : intervals[c].set /\ intervals[c].hours > 0 }

\* how many created tasks carry the name of call c
TasksOf(c) ==
    Cardinality({ j \in 1..Len(scheduled_tasks) :
                    scheduled_tasks[j].tag = TaskNames[c] })

\* the configured interval of the task with this name
IntervalOf(tag) ==
    GetInterval(intervals, CHOOSE c \in Calls : TaskNames[c] = tag)

\* position in slog of the entry that closes the start of the scheduler
\* (0 while the tasks are still being created)
StartClosedAt ==
    IF \E k \in SEvs : slog[k].ev \in { "scheduled", "warning" }
    THEN CHOOSE k \in SEvs : slog[k].ev \in { "scheduled", "warning" }
    ELSE 0

\* entry k was written before the steady loop was entered
AtStart(k) == StartClosedAt = 0 \/ k < StartClosedAt

\* C17: at scheduler start exactly one task is created for each (kind, list
\* category) whose configured interval is strictly positive and none for
\* one whose interval is zero, negative or absent; the number of created
\* tasks is the number of strictly positive intervals
C17_OneTaskPerPositiveInterval ==
    /\ \A c \in Calls :
          TasksOf(c) = IF (c < call \/ (c = call /\ spc = "immediate"))
                          /\ c \in PositiveCalls
                       THEN 1 ELSE 0
    /\ call > Len(TaskNames) =>
          /\ Len(scheduled_tasks) = Cardinality(PositiveCalls)
          /\ Len(SelectSeq(slog, LAMBDA e : e.ev = "create"))
               = Cardinality(PositiveCalls)

\* the steady loop is entered with two tasks, a negative interval and a
\* zero or absent one having been passed over
C17_Witness ==
    /\ spc = "loop"
    /\ Len(scheduled_tasks) = 2
    /\ \E c \in Calls : intervals[c] = Hours(-1)
    /\ \E c \in Calls : intervals[c] \in { Absent, Hours(0) }

\* C18: with run_now every created task is run exactly once before the
\* steady loop is entered and each of these runs is followed by a sleep of
\* add_delay; without run_now no task is run before the steady loop
C18_ImmediateRunsOnceEach ==
    /\ ~run_now => \A k \in SEvs : slog[k].ev = "run" => ~AtStart(k)
    /\ (run_now /\ StartClosedAt > 0) =>
          \A j \in 1..Len(scheduled_tasks) :
              Cardinality({ k \in 1..StartClosedAt :
                              /\ slog[k].ev = "done"
                              /\ slog[k].tag = scheduled_tasks[j].tag }) = 1
    /\ run_now =>
          \A k \in SEvs :
              (AtStart(k) /\ slog[k].ev = "done") =>
                  /\ slog[k - 1].ev = "run"
                  /\ slog[k - 1].tag = slog[k].tag
                  /\ k < Len(slog)
                  /\ slog[k + 1] = SE("sleep", "delay", slog[k].t, add_delay)

\* the steady loop is entered after the immediate runs of three tasks
C18_Witness ==
    /\ run_now
    /\ spc = "loop"
    /\ Len(scheduled_tasks) = 3
    /\ Len(SelectSeq(slog, LAMBDA e : e.ev = "sleep" /\ e.tag = "delay")) = 3

C20_PositiveSleepBeforeCheck ==
    /\ \A k \in SEvs :
          slog[k].ev = "check" =>
              /\ k > 2
              /\ slog[k - 2].ev = "idle"
              /\ slog[k - 1].ev = "sleep"
              /\ slog[k - 1].v > 0
              /\ slog[k - 1].v = IF slog[k - 2].v > 0 THEN slog[k - 2].v
                                 ELSE BriefPause
              /\ slog[k].t = slog[k - 1].t + slog[k - 1].v
    /\ Len(SelectSeq(slog, LAMBDA e : e.ev = "sleep" /\ e.tag # "delay"
                                        /\ e.v > 0)) >= iterations

\* one check came after a sleep of the idle time and a later one after the
\* pause of one second
C20_Witness ==
    \E j, k \in SEvs :
        /\ j < k
        /\ slog[j].ev = "check" /\ slog[j - 1].tag = "idle"
        /\ slog[k].ev = "check" /\ slog[k - 1].tag = "pause"
        /\ slog[k - 1].v = BriefPause


\* the status entries of slog, in order
StatusLog == SelectSeq(slog, LAMBDA e : e.ev = "status")

\* C21: the steady loop emits the schedule status at most once per logging
\* interval: two successive emissions are at least 3600 seconds apart; the
\* emission is made at the top of a round, whether or not a task fires in it
C21_StatusAtMostOncePerInterval ==
    /\ \A i \in 1..(Len(StatusLog) - 1) :
          StatusLog[i + 1].t - StatusLog[i].t >= ScheduleLogInterval
    /\ last_schedule_log =
          IF StatusLog = << >> THEN 0 ELSE StatusLog[Len(StatusLog)].t
    /\ iterations > 0 => StatusLog # << >>
    /\ \A k \in SEvs :
          slog[k].ev = "status" =>
              /\ k < Len(slog)
              /\ slog[k + 1].ev \in { "idle", "exception" }
              /\ slog[k + 1].t = slog[k].t

\* two emissions, a task having fired between them
C21_Witness ==
    /\ Len(StatusLog) = 2
    /\ \E k \in SEvs :
          /\ slog[k].ev = "done"
          /\ StatusLog[1].t < slog[k].t
          /\ slog[k].t <= StatusLog[2].t

\* C22: when no interval is configured, run_automatic_mode logs the warning
\* once before the loop and then stays in the steady loop, sleeping one
\* second at a time; it never returns or exits on its own
C22_NoTasksStaysInLoop ==
    PositiveCalls = {} =>
        /\ spc \in { "schedule", "scheduled", "loop" }
        /\ scheduled_tasks = << >>
        /\ Len(SelectSeq(slog, LAMBDA e : e.ev = "warning"))
             = IF spc = "loop" THEN 1 ELSE 0
        /\ \A k \in SEvs : slog[k].ev = "warning" => k = 1
        /\ Len(SelectSeq(slog, LAMBDA e : e.ev = "sleep" /\ e.v = BriefPause))
             = iterations
        /\ \A k \in SEvs : slog[k].ev = "sleep" => slog[k].v = BriefPause

\* without tasks the loop has made all the rounds that are followed
C22_Witness ==
    /\ PositiveCalls = {}
    /\ spc = "loop"
    /\ iterations = MaxIterations
    /\ now = StartTime + MaxIterations * BriefPause

\* C23: an exception that escapes a scheduled task in the steady loop is
\* caught at the loop level, logged and followed by a recovery sleep of one
\* second; the loop goes on and the tasks stay scheduled
C23_TaskExceptionCaughtInLoop ==
    /\ \A k \in SEvs :
          (slog[k].ev = "raised" /\ ~AtStart(k)) =>
              /\ k + 2 <= Len(slog)
              /\ slog[k + 1] = SE("exception", slog[k].tag, slog[k].t, 0)
              /\ slog[k + 2] = SE("sleep", "recover", slog[k].t, BriefPause)
    /\ spc = "crashed" => StartClosedAt = 0
    /\ StartClosedAt > 0 => Len(scheduled_tasks) = Cardinality(PositiveCalls)

\* after the failure of a task in the steady loop a task was run again
C23_Witness ==
    /\ spc = "loop"
    /\ \E j, k \in SEvs :
          /\ j < k
          /\ slog[j].ev = "raised" /\ ~AtStart(j)
          /\ slog[k].ev = "done"

\* C24: the steady loop ends only through the termination signal: no outcome
\* of a scheduled task ends the loop or the process, and the handler of the
\* signal clears every task before the process exits
C24_OnlyTheSignalEndsTheLoop ==
    /\ (StartClosedAt > 0 /\ ~Alive) => spc = "cancelled"
    /\ spc = "cancelled" =>
          /\ scheduled_tasks = << >>
          /\ Len(slog) >= 3
          /\ slog[Len(slog) - 1].ev = "clear"
          /\ slog[Len(slog)].ev = "exit"

\* C25: a termination signal that arrives while a scheduled task is
\* executing takes effect only at a round boundary: the task that was in
\* flight has returned before the tasks are cleared and the process exits
C25_SignalWaitsForTheRunningTask ==
    /\ spc = "cancelled" => running = {}
    /\ \A k \in SEvs :
          (slog[k].ev = "signal" /\ k > 1) => slog[k - 1].ev # "run"

\* C26: scheduled tasks run strictly one after the other: at most one task
\* is executing at any moment, and a task that becomes due while another is
\* running starts only after that one has returned; the same holds for the
\* immediate runs
C26_TasksRunOneAtATime ==
    /\ Cardinality(running) <= 1
    /\ running # {} <=> spc \in { "immediate", "running" }
    /\ pc = "idle"
    /\ \A k \in SEvs :
          slog[k].ev = "run" =>
              \/ k = Len(slog) /\ running # {}
              \/ /\ k < Len(slog)
                 /\ slog[k + 1].ev \in { "done", "raised", "exit" }
                 /\ slog[k + 1].tag = slog[k].tag
                 /\ slog[k + 1].t >= slog[k].t
    /\ \A j, k \in SEvs :
          (j < k /\ slog[j].ev = "run" /\ slog[k].ev = "run") =>
              slog[k].t >= slog[j + 1].t

\* a task became due while another one was running and was started after
\* that one had returned
C26_Witness ==
    \E j, k \in SEvs :
        /\ j + 1 < k
        /\ slog[j].ev = "run" /\ slog[j + 1].ev = "done"
        /\ slog[k].ev = "run" /\ slog[k].tag # slog[j].tag
        /\ slog[j].t < slog[k].v
        /\ slog[k].v < slog[j + 1].t
        /\ slog[j + 1].t <= slog[k].t


\* ------------------------------------------- claims about _automatic_media
TEvs == 1..Len(tlog)

\* the task reached the end of its loop
TaskFinished == \E k \in TEvs : tlog[k].ev = "finished"

\* _process_media was invoked for key name and entry after event k
InvokedAfter(k, name, entry) ==
    \E j \in TEvs :
        /\ j > k
        /\ tlog[j].ev = "invoke"
        /\ tlog[j].list = name
        /\ tlog[j].entry = entry

\* position of the key called name in automatic_config
KeyAt(name) ==
    CHOOSE p \in 1..Len(automatic_config) : automatic_config[p].name = name

\* position of the entry called entry in the mapping at position p
EntryAt(p, entry) ==
    IF entry = "-" THEN 0
    ELSE CHOOSE q \in 1..Len(automatic_config[p].entries) :
             automatic_config[p].entries[q].name = entry

\* the invocations the task owes after position (p, q): the selected
\* lists with a positive limit
OwedAfter(k, p, q) ==
    \A p2 \in 1..Len(automatic_config) :
        LET c == automatic_config[p2]
        IN  ~IsIntervalsKey(c.name) /\ Selected(list_filter, c.name) =>
              /\ IsPublicList(c.name) /\ c.limit > 0 /\ p2 > p
                   => InvokedAfter(k, c.name, "-")
              /\ ~IsPublicList(c.name) /\ IsMapping(c.name) =>
                   \A q2 \in 1..Len(c.entries) :
                       /\ c.entries[q2].limit > 0
                       /\ p2 > p \/ (p2 = p /\ q2 > q)
                       => InvokedAfter(k, c.name, c.entries[q2].name)

RetrievalFailures == { "list fetch", "inventory lookup", "reconciliation" }

\* C29: a retrieval failure (list fetch, existing-inventory lookup,
\* reconciliation) inside a task aborts only the invocation for that list:
\* the task is not left, and when it ends the remaining lists have been
\* processed
C29_RetrievalFailureAbortsOneList ==
    \A k \in TEvs :
        tlog[k].ev = "result" /\ tlog[k].o.why \in RetrievalFailures =>
            /\ tpc # "exited"
            /\ tpc = "returned" /\ TaskFinished =>
                 LET p == KeyAt(tlog[k].list)
                 IN  OwedAfter(k, p, EntryAt(p, tlog[k].entry))

\* the name, or its prefix before '_', is a public list
PublicByName(name) ==
    name \in NonUserLists \/ << Head(name) >> \in NonUserLists

\* the task with this list_filter invokes the pipeline for the key
ProcessedBy(filter, name) ==
    /\ ~IsIntervalsKey(name)
    /\ Selected(filter, name)
    /\ IsPublicList(name) \/ IsMapping(name)

\* C30: with list_filter 'public_lists' the pipeline is invoked only for
\* the public lists, with 'user_lists' only for the watchlist entries and
\* the custom lists, with no filter for all of them; no configured list
\* is processed by both the public and the user task, and 'intervals' is
\* never treated as a list
C30_ListFilterSelectsLists ==
    /\ \A k \in TEvs :
         /\ ~IsIntervalsKey(tlog[k].list)
         /\ tlog[k].ev = "invoke" =>
              /\ list_filter = "public_lists" => PublicByName(tlog[k].list)
              /\ list_filter = "user_lists" =>
                   tlog[k].list \in { << "watchlist" >>, << "lists" >> }
    /\ TaskFinished =>
         \A p \in 1..Len(automatic_config) :
             LET c == automatic_config[p]
             IN  /\ PublicByName(c.name) /\ c.limit > 0
                    /\ list_filter # "user_lists"
                    => InvokedAfter(0, c.name, "-")
                 /\ c.name \in { << "watchlist" >>, << "lists" >> }
                    /\ list_filter # "public_lists"
                    => \A q \in 1..Len(c.entries) :
                           c.entries[q].limit > 0 =>
                               InvokedAfter(0, c.name, c.entries[q].name)
    /\ \A p \in 1..Len(automatic_config) :
         ~ ( /\ ProcessedBy("public_lists", automatic_config[p].name)
             /\ ProcessedBy("user_lists", automatic_config[p].name) )

\* the public task has finished: it invoked the pipeline for the list
\* whose prefix is public and passed over the configured watchlist
C30_Witness ==
    /\ list_filter = "public_lists"
    /\ TaskFinished
    /\ InvokedAfter(0, << "popular", "weekly" >>, "-")
    /\ \E p \in 1..Len(automatic_config) :
           automatic_config[p].name = << "watchlist" >>
    /\ \A k \in TEvs : tlog[k].list # << "watchlist" >>


\* ------------------------------------------------ claims about Discord.send
DEvs == 1..Len(dlog)

\* C31: send never propagates a failure: without webhook_url or username
\* it returns False and posts nothing, when building the payload or the
\* request raises it logs and returns False, and it returns True exactly
\* when the webhook answers with status 204
C31_SendNeverPropagates ==
    \A k \in DEvs :
        LET c == dlog[k]
        IN  /\ c.propagated = None
            /\ Falsy(discord.webhook_url) \/ Falsy(discord.username) =>
                 ~c.posted /\ ~c.ret
            /\ "message" \notin DOMAIN c.kwargs \/ c.answer.raises # None =>
                 ~c.ret /\ c.logged # "-"
            /\ c.ret <=> ( /\ c.posted
                           /\ c.answer.raises = None
                           /\ c.answer.status_code = 204 )

\* a send that was answered 204, one answered 200 and one whose request
\* raised
C31_Witness ==
    /\ \E k \in DEvs : dlog[k].ret /\ dlog[k].answer.status_code = 204
    /\ \E k \in DEvs : dlog[k].posted /\ dlog[k].answer.status_code = 200
    /\ \E k \in DEvs : dlog[k].answer.raises = "ConnectionError"


\* the key of disabled_for that belongs to an invocation: the list name
\* for a public list, 'watchlist:<user>', 'list:<name>'
DisabledKeyOf(e) ==
    IF e.entry = "-" THEN ListKey(e.list)
    ELSE IF e.list = << "watchlist" >> THEN WatchlistKey(e.entry)
    ELSE CustomListKey(e.entry)

\* C32: the invocation for a list runs with ignore_blacklist = true exactly
\* when the task's ignore_blacklist is true or the key of the list is in
\* disabled_for; an override of one list does not reach a later list
C32_IgnoreBlacklistPerList ==
    \A k \in TEvs :
        tlog[k].ev = "invoke" =>
            ( tlog[k].ignore <=>
                ( task_ignore_blacklist \/ DisabledKeyOf(tlog[k]) \in disabled_for ) )

\* an invocation that ran with the override of disabled_for is followed by
\* one that ran without it
C32_Witness ==
    /\ ~task_ignore_blacklist
    /\ \E j, k \in TEvs :
           /\ j < k
           /\ tlog[j].ev = "invoke" /\ tlog[j].ignore
           /\ tlog[k].ev = "invoke" /\ ~tlog[k].ignore


\* the sum of the counts the invocations in the first k events returned
RECURSIVE CountsUpTo(_)
CountsUpTo(k) ==
    IF k = 0 THEN 0
    ELSE CountsUpTo(k - 1)
         + ( IF tlog[k].ev = "result" /\ tlog[k].o.ret = "count"
             THEN tlog[k].o.val ELSE 0 )

\* C36: the total a task returns and announces is the sum of the counts
\* of all the invocations it made, every watchlist user and custom list
\* included; an invocation that returned None counts zero
C36_TotalIsSumOfCounts ==
    \A k \in TEvs :
        tlog[k].ev \in { "return", "notify", "finished" } /\ tpc = "returned"
            => tlog[k].n = CountsUpTo(Len(tlog))

RaisedAt(k) == tlog[k].ev = "result" /\ tlog[k].o.ret = "raise"

\* C38: an Exception raised while the lists are processed does not leave
\* _automatic_media: it is logged, the lists after the failing one are not
\* processed and the total so far is returned; only an invalid media_type
\* raises, before any list is processed
C38_TaskExceptionsContained ==
    /\ tpc = "raised" =>
         /\ ~ValidMediaType(task_media_type)
         /\ \A k \in TEvs : tlog[k].ev \notin { "invoke", "skipped", "sleep" }
    /\ ~ValidMediaType(task_media_type) => tpc \in { "called", "raised" }
    /\ \A k \in TEvs :
         RaisedAt(k) =>
             /\ tpc = "returned"
             /\ \E j \in TEvs : j > k /\ tlog[j].ev = "exception"
             /\ \A j \in TEvs : j > k => tlog[j].ev \notin { "invoke", "finished" }
             /\ tlog[Len(tlog)].ev = "return"
             /\ tlog[Len(tlog)].n = total_added

\* an invocation raised after an earlier list had added an item, and a
\* configured list after it was left out
C38_Witness ==
    /\ total_added > 0
    /\ \E k \in TEvs :
           /\ RaisedAt(k)
           /\ tlog[k].list = << "popular", "weekly" >>
    /\ tpc = "returned"
    /\ \E p \in 1..Len(automatic_config) :
           automatic_config[p].name = << "watchlist" >>
    /\ list_filter = None
    /\ \A k \in TEvs : tlog[k].list # << "watchlist" >>


\* ------------------------------------------------ the gates of one item
\* the place of a gate, and of the submission, in the order of the loop
GateRank(ev) ==
    IF ev = "tmdb" THEN 1
    ELSE IF ev = "genre" THEN 2
    ELSE IF ev = "eval" THEN 3
    ELSE IF ev = "rt" THEN 4
    ELSE IF ev = "submit" THEN 5
    ELSE 0

\* the gate of event k turned its item down
GateRejected(k) ==
    \/ trace[k].ev \in { "tmdb", "genre", "rt" } /\ trace[k].res = "false"
    \/ trace[k].ev = "eval" /\ trace[k].res = "true"

\* C33: the gates of an item run in the order external-catalog validation,
\* genre filter, blacklist evaluation, minimum rating (movies); a gate that
\* rejects the item ends its processing: no later gate, no submission; the
\* rating adapter is asked only about items that passed the blacklist
C33_GatesInOrderShortCircuit ==
    \A k \in Evs :
        GateRank(trace[k].ev) > 0 =>
            /\ \A j \in 1..(k - 1) :
                   trace[j].item = trace[k].item /\ GateRank(trace[j].ev) > 0
                       => /\ GateRank(trace[j].ev) < GateRank(trace[k].ev)
                          /\ ~GateRejected(j)
            /\ trace[k].ev = "rt" =>
                   /\ args.media_type = "movies"
                   /\ \E j \in 1..(k - 1) :
                          /\ trace[j].item = trace[k].item
                          /\ trace[j].ev = "eval"
                          /\ trace[j].res = "false"

\* a movie went through the four gates and was submitted, another was
\* turned down by the rating gate, another by the blacklist
C33_Witness ==
    /\ args.media_type = "movies"
    /\ \E k \in Evs : trace[k].ev = "rt" /\ trace[k].res = "false"
    /\ \E k \in Evs : trace[k].ev = "eval" /\ trace[k].res = "true"
    /\ \E j, k \in Evs :
           /\ j < k
           /\ trace[j].item = trace[k].item
           /\ trace[j].ev = "rt" /\ trace[j].res = "true"
           /\ trace[k].ev = "submit"


\* C34: the removal callback is handed to reconciliation and to the
\* blacklist evaluation only when remove_rejected_from_recommended was
\* requested and the list type is 'recommended'; for any other list type
\* nothing is removed from the list source
C34_RemovalOnlyForRecommended ==
    \A k \in Evs :
        trace[k].ev \in { "callback", "remove_recommended" } =>
            /\ args.remove_rejected_from_recommended
            /\ args.list_type = "recommended"

\* the callback went to both helpers; reconciliation removed an item that
\* was in the inventory and the evaluation one that was blacklisted
C34_Witness ==
    /\ \E k \in Evs : trace[k] = E("callback", 0, "reconcile")
    /\ \E k \in Evs :
           trace[k].ev = "remove_recommended" /\ trace[k].res = "reconcile"
    /\ \E k \in Evs : trace[k].ev = "callback" /\ trace[k].res = "eval"
    /\ \E k \in Evs :
           trace[k].ev = "remove_recommended" /\ trace[k].res = "eval"


\* C39: when the existing-inventory lookup comes back empty or failed, the
\* process exits there: the list source is not queried, nothing is
\* submitted, and an inventory without items is handled as a failed lookup
C39_EmptyInventoryExits ==
    \A k \in Evs :
        trace[k].ev = "get_objects" /\ trace[k].res \in { "None", "empty" } =>
            /\ pc = "exited"
            /\ trace[k + 1] = E("log_error", 0, "objects")
            /\ Len(trace) = k + ( IF args.notifications THEN 2 ELSE 1 )
            /\ args.notifications => trace[k + 2] = E("notify", 0, "error")
            /\ \A j \in Evs : trace[j].ev \notin { "fetch", "submit" }

\* the inventory target holds nothing, the lookup did not fail, and the
\* process has exited
C39_Witness ==
    /\ library = {}
    /\ pc = "exited"
    /\ \E k \in Evs : trace[k] = E("get_objects", 0, "empty")


\* ------------------------------------------------ the loop followed for ever
\* the task of schedule_task call c exists
Created(c) ==
    \E j \in 1..Len(scheduled_tasks) : scheduled_tasks[j].tag = TaskNames[c]

\* the task of call c is executing
Executing(c) ==
    \E j \in running : scheduled_tasks[j].tag = TaskNames[c]

\* the due time of the task of call c has passed
Overdue(c) ==
    \E j \in 1..Len(scheduled_tasks) :
        /\ scheduled_tasks[j].tag = TaskNames[c]
        /\ scheduled_tasks[j].next_run <= now

\* the jobs in the queue of run_pending
Queued == { runnable[k] : k \in 1..Len(runnable) }

\* C35: when time advances, every execution returns and no signal arrives,
\* every task created at the start is executed again after each of its
\* executions, and a task whose due time has passed is taken by the next
\* pending-task check and run
C35_EveryTaskFiresAgain ==
    /\ \A c \in Calls : (Created(c) /\ ~Executing(c)) ~> Executing(c)
    /\ \A c \in Calls : (Overdue(c) /\ ~Executing(c)) ~> Executing(c)
    /\ [][ LoopRound =>
             \A j \in 1..Len(scheduled_tasks) :
                 scheduled_tasks'[j].next_run <= now' => j \in Queued' ]_vars

\* the only task is executing in the steady loop after its immediate run
\* at the start
C35_Witness ==
    /\ run_now
    /\ Len(scheduled_tasks) = 1
    /\ spc = "running"
    /\ running = { 1 }

====
